---- MODULE Spec2Model ----
(***************************************************************************)
(* transport-planner backend: the response caches (services/cache, kept   *)
(* in src/backend/src/services/gasPrices.ts from line 224 on), the Mapbox  *)
(* client that sits behind them (services/mapbox-simple.ts), the cache-key *)
(* derivation and the emissions calculator (services/emissions.ts).        *)
(*                                                                         *)
(* Time is counted in whole seconds.  JavaScript values are records with a *)
(* "tag" (the typeof-like class of the value) so that truthiness, which    *)
(* the cache wrappers branch on, is part of the model.                     *)
(***************************************************************************)
EXTENDS Integers, Sequences, FiniteSets, TLC

VARIABLES
    enabled,     \* config.cache.<c>.enabled, fixed when the process starts
    cfgTtl,      \* config.cache.<c>.ttl (seconds), fixed when the process starts
    now,         \* the clock, Date.now(), in seconds
    store,       \* store[c]: the NodeCache instance's data, key -> [v, t]
    cacheStats,  \* cacheStats[c] = [hits, misses]
    last,        \* the most recent cache-service call and what it returned
    inv,         \* inv[i]: the i-th in-progress geocode/getDirections invocation
    inflight,    \* invocations whose fetch() has been sent and not yet answered
    keyIn,       \* the two geocoding requests handed to the key derivation
    keyOut,      \* the cache keys derived for them
    metricsIn,   \* the request handed to the emissions calculator
    metricsOut,  \* what it returned
    gasIn,       \* the argument handed to a GasPriceService method
    gasOut,      \* what it returned
    errIn,       \* the error and environment handed to errorHandler
    errOut,      \* the response errorHandler sent
    batch,       \* the POST /api/directions/batch request being served
    replaced     \* history: the entry the latest set call found under its key

vars == <<enabled, cfgTtl, now, store, cacheStats, last, inv, inflight,
          keyIn, keyOut, metricsIn, metricsOut, gasIn, gasOut, errIn, errOut,
          batch, replaced>>

cacheVars == <<enabled, cfgTtl, now, store, cacheStats, last>>
serviceVars == <<inv, inflight>>
keyVars == <<keyIn, keyOut>>
metricsVars == <<metricsIn, metricsOut>>
gasVars == <<gasIn, gasOut>>
errVars == <<errIn, errOut>>
batchVars == <<batch>>
servedVars == <<serviceVars, keyVars, metricsVars, gasVars, errVars, batchVars>>
otherVars == <<servedVars, replaced>>

----------------------------------------------------------------------------
(* Bounds of the model *)

MaxTime == 3
MaxTtl == 1
MaxGets == 2

----------------------------------------------------------------------------
(* JavaScript values *)

Null == [tag |-> "null", n |-> 0]
Undefined == [tag |-> "undefined", n |-> 0]
NumberValue(x) == [tag |-> "number", n |-> x]
ArrayValue(len) == [tag |-> "array", n |-> len]

\* ToBoolean, as applied by `if (data)` and `a || b`
Truthy(v) ==
    CASE v.tag \in {"null", "undefined"} -> FALSE
      [] v.tag \in {"number", "string", "boolean"} -> v.n # 0
      [] OTHER -> TRUE

Caches == {"geocoding", "directions"}
ApiKeys == {"k1"}
ApiValues == {NumberValue(0), ArrayValue(0)}

\* The optional ttl argument: <<>> when omitted, <<n>> when given
TtlArgs == {<<>>} \cup {<<n>> : n \in 0..MaxTtl}
TtlFalsy(ttl) == ttl = <<>> \/ ttl[1] = 0

\* CACHE_GEOCODING_TTL / CACHE_DIRECTIONS_TTL as set in the environment
ConfigTtls == {[geocoding |-> 2, directions |-> 1], [geocoding |-> 0, directions |-> 1]}

EmptyData == [k \in {} |-> Null]
Remove(d, k) == [x \in DOMAIN d \ {k} |-> d[x]]
Put(d, k, e) == [x \in DOMAIN d \cup {k} |-> IF x = k THEN e ELSE d[x]]

----------------------------------------------------------------------------
(* The NodeCache instances: stdTTL = config ttl, useClones = false,       *)
(* deleteOnExpire left at its default.  An entry is [v, t]: t = 0 never    *)
(* expires, otherwise the entry is dead once t < now.  The model keeps two *)
(* more fields beside them, which no code reads: at, the time of the set   *)
(* call that wrote the entry, and arg, the ttl argument of that call.      *)

NcExpired(e, time) == e.t # 0 /\ e.t < time

NcLive(d, k, time) == k \in DOMAIN d /\ ~NcExpired(d[k], time)

\* NodeCache.get: the value, or undefined on a miss
NcGet(d, k, time) == IF NcLive(d, k, time) THEN d[k].v ELSE Undefined

\* NodeCache.get drops the key it finds expired
NcAfterGet(d, k, time) ==
    IF k \in DOMAIN d /\ NcExpired(d[k], time) THEN Remove(d, k) ELSE d

\* NodeCache.set(key, value, ttl) with a ttl always passed by the wrapper
NcLifetime(ttl, time) == IF ttl = 0 THEN 0 ELSE time + ttl

\* (mutant) a set over an entry that is there keeps the entry's deadline
NcSetKeepsDeadline(d, k, v, ttl, time, arg) ==
    Put(d, k, [v |-> v, at |-> time, arg |-> arg,
               t |-> IF k \in DOMAIN d THEN d[k].t ELSE NcLifetime(ttl, time)])

NcSet(d, k, v, ttl, time, arg) ==
    Put(d, k, [v |-> v, t |-> NcLifetime(ttl, time), at |-> time, arg |-> arg])

\* (mutant) del empties the cache
NcDelFlushes(d, k) == EmptyData

\* NodeCache.del(key), and the number of entries it deleted
NcDel(d, k) == Remove(d, k)
NcDelCount(d, k) == IF k \in DOMAIN d THEN 1 ELSE 0

\* the checkperiod timer: every expired key is deleted
NcCheckData(d, time) ==
    [x \in {k \in DOMAIN d : ~NcExpired(d[k], time)} |-> d[x]]

----------------------------------------------------------------------------
(* geocodingCacheService / directionsCacheService *)

\* (mutant) the ttl argument is ignored
EffectiveTtlIgnoresArg(c, ttl) == cfgTtl[c]

\* `ttl || config.cache.<c>.ttl`
EffectiveTtl(c, ttl) == IF TtlFalsy(ttl) THEN cfgTtl[c] ELSE ttl[1]

\* (mutant) the enabled flag is not consulted
CacheOnAlways(c) == TRUE

\* the `if (!config.cache.<c>.enabled) return ...` guard of get and set
CacheOn(c) == enabled[c]

\* (mutant) get never finds anything
GetReturnAbsent(data) == Null

\* what get(key) returns: `if (data) return data; else return null`
GetReturn(data) == IF Truthy(data) THEN data ELSE Null

CacheGetResult(c, k) ==
    IF ~CacheOn(c) THEN Null ELSE GetReturn(NcGet(store[c], k, now))

StoreAfterGet(c, k) ==
    IF ~CacheOn(c) THEN store
    ELSE [store EXCEPT ![c] = NcAfterGet(store[c], k, now)]

\* (mutant) a hit is counted when NodeCache has the key, whatever is returned
StatsAfterGetCountsFound(c, k) ==
    IF ~CacheOn(c) THEN cacheStats
    ELSE IF NcLive(store[c], k, now)
         THEN [cacheStats EXCEPT ![c].hits = @ + 1]
         ELSE [cacheStats EXCEPT ![c].misses = @ + 1]

StatsAfterGet(c, k) ==
    IF ~CacheOn(c) THEN cacheStats
    ELSE IF Truthy(NcGet(store[c], k, now))
         THEN [cacheStats EXCEPT ![c].hits = @ + 1]
         ELSE [cacheStats EXCEPT ![c].misses = @ + 1]

CacheSetResult(c) == CacheOn(c)

StoreAfterSet(c, k, v, ttl) ==
    IF ~CacheOn(c) THEN store
    ELSE [store EXCEPT ![c] = NcSet(store[c], k, v, EffectiveTtl(c, ttl), now, ttl)]

\* the entry a get found under its key before it ran, kept with the call's
\* arguments and result
NoEntry == [v |-> Null, t |-> 0, at |-> -1, arg |-> <<>>]
Seen(c, k) == IF k \in DOMAIN store[c] THEN store[c][k] ELSE NoEntry

NoCall == [op |-> "none", c |-> "geocoding", k |-> "k1", res |-> Null, ok |-> FALSE,
           seen |-> NoEntry, v |-> Null, ttl |-> <<>>]

\* hits + misses of both caches; the model stops issuing gets at MaxGets
GetsLeft == cacheStats["geocoding"].hits + cacheStats["geocoding"].misses
            + cacheStats["directions"].hits + cacheStats["directions"].misses < MaxGets

CacheGet(c, k) ==
    /\ GetsLeft
    /\ store' = StoreAfterGet(c, k)
    /\ cacheStats' = StatsAfterGet(c, k)
    /\ last' = [NoCall EXCEPT !.op = "get", !.c = c, !.k = k,
                              !.res = CacheGetResult(c, k), !.seen = Seen(c, k)]
    /\ UNCHANGED <<enabled, cfgTtl, now>>
    /\ UNCHANGED otherVars

\* set(key, value, ttl)
SetCall(c, k, v, ttl) ==
    /\ store' = StoreAfterSet(c, k, v, ttl)
    /\ last' = [NoCall EXCEPT !.op = "set", !.c = c, !.k = k, !.v = v, !.ttl = ttl,
                              !.ok = CacheSetResult(c)]
    /\ UNCHANGED <<enabled, cfgTtl, now, cacheStats>>
    /\ UNCHANGED servedVars

CacheSet(c, k, v, ttl) ==
    /\ SetCall(c, k, v, ttl)
    /\ UNCHANGED replaced

\* the same call, with the value and the deadline of the entry it found
\* under the key kept as history (<<>> when it found none)
CacheReSet(c, k, v, ttl) ==
    /\ SetCall(c, k, v, ttl)
    /\ replaced' = IF k \in DOMAIN store[c]
                   THEN << [v |-> store[c][k].v, t |-> store[c][k].t] >>
                   ELSE <<>>

CacheDel(c, k) ==
    /\ store' = [store EXCEPT ![c] = NcDel(@, k)]
    /\ last' = [NoCall EXCEPT !.op = "del", !.c = c, !.k = k,
                              !.res = NumberValue(NcDelCount(store[c], k))]
    /\ UNCHANGED <<enabled, cfgTtl, now, cacheStats>>
    /\ UNCHANGED otherVars

CacheClear(c) ==
    /\ store' = [store EXCEPT ![c] = EmptyData]
    /\ last' = [NoCall EXCEPT !.op = "clear", !.c = c]
    /\ UNCHANGED <<enabled, cfgTtl, now, cacheStats>>
    /\ UNCHANGED otherVars

ClearAllCaches ==
    /\ store' = [c \in Caches |-> EmptyData]
    /\ cacheStats' = [c \in Caches |-> [hits |-> 0, misses |-> 0]]
    /\ last' = [NoCall EXCEPT !.op = "clearAll"]
    /\ UNCHANGED <<enabled, cfgTtl, now>>
    /\ UNCHANGED otherVars

\* the periodic sweep of one NodeCache instance
CheckData(c) ==
    /\ store[c] # NcCheckData(store[c], now)
    /\ store' = [store EXCEPT ![c] = NcCheckData(@, now)]
    /\ UNCHANGED <<enabled, cfgTtl, now, cacheStats, last>>
    /\ UNCHANGED otherVars

Tick ==
    /\ now < MaxTime
    /\ now' = now + 1
    /\ last' = [NoCall EXCEPT !.op = "tick"]
    /\ UNCHANGED <<enabled, cfgTtl, store, cacheStats>>
    /\ UNCHANGED otherVars

----------------------------------------------------------------------------
(* The cache services driven directly through their exported methods *)

\* ENABLE_CACHE switches both caches at once
InitConfig ==
    /\ \E e \in BOOLEAN : enabled = [c \in Caches |-> e]
    /\ cfgTtl \in ConfigTtls

InitCache ==
    /\ InitConfig
    /\ now = 0
    /\ store = [c \in Caches |-> EmptyData]
    /\ cacheStats = [c \in Caches |-> [hits |-> 0, misses |-> 0]]
    /\ last = NoCall

InitService ==
    /\ inv = <<>>
    /\ inflight = {}

InitKey ==
    /\ keyIn = <<>>
    /\ keyOut = <<>>

InitMetrics ==
    /\ metricsIn = <<>>
    /\ metricsOut = <<>>

InitGas ==
    /\ gasIn = <<>>
    /\ gasOut = <<>>

InitErr ==
    /\ errIn = <<>>
    /\ errOut = <<>>

InitBatch == batch = <<>> /\ replaced = <<>>

CacheApiInit ==
    InitCache /\ InitService /\ InitKey /\ InitMetrics /\ InitGas /\ InitErr /\ InitBatch

CacheApiNext ==
    \/ \E c \in Caches, k \in ApiKeys : CacheGet(c, k)
    \/ \E c \in Caches, k \in ApiKeys, v \in ApiValues, ttl \in TtlArgs :
           CacheSet(c, k, v, ttl)
    \/ \E c \in Caches, k \in ApiKeys : CacheDel(c, k)
    \/ \E c \in Caches : CacheClear(c)
    \/ ClearAllCaches
    \/ \E c \in Caches : CheckData(c)
    \/ Tick

SpecCache == CacheApiInit /\ [][CacheApiNext]_vars

----------------------------------------------------------------------------
(* Cache keys.  A string is a sequence of one-character strings.  A key is *)
(* kept as the tuple of the parts its template literal joins with ":" and  *)
(* ","; none of the parts can contain the separators it is joined with.    *)

Whitespace == {" "}
LowerOf(ch) == IF ch = "A" THEN "a" ELSE IF ch = "B" THEN "b" ELSE ch

\* String.prototype.toLowerCase
ToLowerCase(str) == [i \in DOMAIN str |-> LowerOf(str[i])]

RECURSIVE TrimStart(_)
TrimStart(str) ==
    IF str # <<>> /\ Head(str) \in Whitespace THEN TrimStart(Tail(str)) ELSE str

RECURSIVE TrimEnd(_)
TrimEnd(str) ==
    IF str # <<>> /\ str[Len(str)] \in Whitespace
    THEN TrimEnd(SubSeq(str, 1, Len(str) - 1)) ELSE str

\* String.prototype.trim
Trim(str) == TrimEnd(TrimStart(str))

\* An object is the sequence of its <<property, value>> pairs in insertion
\* order; a value is its JSON text, or "undefined".
Prop(obj, name) ==
    IF \E i \in DOMAIN obj : obj[i][1] = name
    THEN obj[CHOOSE i \in DOMAIN obj : obj[i][1] = name][2]
    ELSE "undefined"

\* JSON.stringify of an object: the properties in insertion order, those whose
\* value is undefined left out
JsonStringify(obj) == SelectSeq(obj, LAMBDA p : p[2] # "undefined")

\* generateGeocodingCacheKey; geocode always passes an options object
GenerateGeocodingCacheKey(query, options) ==
    <<"geocoding", Trim(ToLowerCase(query)), JsonStringify(options)>>

\* generateDirectionsCacheKey
GenerateDirectionsCacheKey(start, end, profile) ==
    <<"directions", start[1], start[2], end[1], end[2], profile>>

\* `limit = 5` in geocode's destructuring of the request
DefaultLimit == "5"

\* (mutant) the options object is the request as the caller built it
GeocodeOptionsAsSupplied(request) == request.options

\* the { limit, proximity, bbox, types } literal geocode builds from the request
GeocodeOptions(request) ==
    <<  <<"limit", IF Prop(request.options, "limit") = "undefined"
                   THEN DefaultLimit ELSE Prop(request.options, "limit")>>,
        <<"proximity", Prop(request.options, "proximity")>>,
        <<"bbox", Prop(request.options, "bbox")>>,
        <<"types", Prop(request.options, "types")>>  >>

GeocodeCacheKey(request) ==
    GenerateGeocodingCacheKey(request.query, GeocodeOptions(request))

\* the requests the key derivation is exercised with: a query in several
\* spellings, and every arrangement of the optional fields a caller can build
KeyQueries == { <<"A">>, <<"a">>, <<" ", "a">>, <<"A", " ">>, <<"b">> }
OptionNames == {"limit", "proximity", "bbox", "types"}
KeyOptionPairs ==
    { <<"limit", "5">>, <<"limit", "1">>, <<"proximity", "[1,2]">>,
      <<"bbox", "[0,0,1,1]">>, <<"types", "[place]">> }
KeyOptions ==
    { obj \in UNION { [1..n -> KeyOptionPairs] : n \in 0..Cardinality(OptionNames) } :
        \A i, j \in DOMAIN obj : i # j => obj[i][1] # obj[j][1] }
KeyRequests == [query : KeyQueries, options : KeyOptions]

\* geocode's first two statements, run for the two requests in keyIn
DeriveKeys ==
    /\ keyOut = <<>>
    /\ keyOut' = <<GeocodeCacheKey(keyIn[1]), GeocodeCacheKey(keyIn[2])>>
    /\ UNCHANGED <<keyIn, cacheVars, serviceVars, metricsVars, gasVars, errVars, batchVars, replaced>>

KeyInit ==
    /\ InitCache
    /\ \A c \in Caches : enabled[c]
    /\ cfgTtl = [geocoding |-> 2, directions |-> 1]
    /\ InitService
    /\ keyIn \in KeyRequests \X KeyRequests
    /\ keyOut = <<>>
    /\ InitMetrics
    /\ InitGas
    /\ InitErr
    /\ InitBatch

KeyNext == DeriveKeys

SpecKey == KeyInit /\ [][KeyNext]_vars

\* two requests are the same logical request: the queries are equal once
\* trimmed and lowercased, and limit (5 when not given), proximity, bbox and
\* types are equal
EffectiveLimit(request) ==
    IF \E i \in DOMAIN request.options : request.options[i][1] = "limit"
    THEN Prop(request.options, "limit") ELSE "5"

SameLogicalRequest(r1, r2) ==
    /\ ToLowerCase(Trim(r1.query)) = ToLowerCase(Trim(r2.query))
    /\ EffectiveLimit(r1) = EffectiveLimit(r2)
    /\ \A name \in OptionNames \ {"limit"} :
          Prop(r1.options, name) = Prop(r2.options, name)

\* C8: two geocoding requests that are the same logical request get the same
\* cache key, whatever the order of their optional fields and whether or not
\* limit was given explicitly as its default.
C8_SameRequestSameKey ==
    (keyOut # <<>> /\ SameLogicalRequest(keyIn[1], keyIn[2]))
        => keyOut[1] = keyOut[2]

\* keys were derived for "A " with {types, limit: 5, bbox} and " a" with
\* {bbox, types}, and they are one key
C8_Witness ==
    /\ keyOut # <<>>
    /\ keyIn[1].query = <<"A", " ">>
    /\ keyIn[1].options = << <<"types", "[place]">>, <<"limit", "5">>,
                             <<"bbox", "[0,0,1,1]">> >>
    /\ keyIn[2].query = <<" ", "a">>
    /\ keyIn[2].options = << <<"bbox", "[0,0,1,1]">>, <<"types", "[place]">> >>
    /\ keyOut[1] = keyOut[2]

----------------------------------------------------------------------------
(* MapboxService.geocode and MapboxService.getDirections.  The provider's  *)
(* answer to a fetch is [net, status, body]: net when fetch() itself       *)
(* rejects, else the HTTP status and the kind of body that came back.      *)

NInv == 2
Slots == 1..NInv
MaxServiceTime == 2

Statuses == {200, 401, 422, 429, 500}
Bodies == {"full", "empty", "badjson"}
Responses ==
    {[net |-> TRUE, status |-> 0, body |-> "empty"]}
      \cup [net : {FALSE}, status : Statuses \ {200}, body : {"empty"}]
      \cup [net : {FALSE}, status : {200}, body : Bodies]

\* (mutant) the status of the response is not looked at
ResponseOkUnchecked(r) == TRUE

\* Response.ok
ResponseOk(r) == r.status >= 200 /\ r.status <= 299

GeoRequests ==
    { [query |-> <<"A">>, options |-> <<>>],
      [query |-> <<"a", " ">>, options |-> << <<"limit", "5">> >>] }

BaseDirections ==
    [start |-> <<0, 0>>, end |-> <<1, 1>>, profile |-> "mapbox/driving",
     alternatives |-> FALSE, steps |-> TRUE, geometries |-> "geojson"]

DirRequests ==
    { BaseDirections,
      [BaseDirections EXCEPT !.profile = "mapbox/walking"],
      [BaseDirections EXCEPT !.steps = FALSE] }

RequestsOf(kind) == IF kind = "geocode" THEN GeoRequests ELSE DirRequests
CacheOf(kind) == IF kind = "geocode" THEN "geocoding" ELSE "directions"

KeyOf(kind, req) ==
    IF kind = "geocode" THEN GeocodeCacheKey(req)
    ELSE GenerateDirectionsCacheKey(req.start, req.end, req.profile)

Failure(status, code) == [ok |-> FALSE, res |-> Null, status |-> status, code |-> code]
Success(value) == [ok |-> TRUE, res |-> value, status |-> 200, code |-> "none"]

\* data.features?.map(...) || [] for the provider's answer to the request
Locations(req, r) ==
    IF r.body = "full"
    THEN [tag |-> "array", n |-> 1, query |-> req.query, options |-> req.options]
    ELSE [tag |-> "array", n |-> 0, query |-> <<>>, options |-> <<>>]

\* the RouteResult built from data.routes[0]; the provider returns the geometry
\* and the steps in the form the request asked for
RouteResult(req) ==
    [tag |-> "object", n |-> 0,
     route |-> <<req.start, req.end, req.profile>>,
     coordinates |-> IF req.geometries = "geojson" THEN "line" ELSE "none",
     geometry |-> req.geometries,
     instructions |-> IF req.steps THEN "turns" ELSE "undefined"]

\* (mutant) a failed geocoding call is turned into an empty result
GeocodeOutcomeMasked(req, r) ==
    IF r.net \/ ~ResponseOk(r) \/ r.body = "badjson"
    THEN Success(Locations(req, [r EXCEPT !.body = "empty"]))
    ELSE Success(Locations(req, r))

\* what geocode does with the provider's answer
GeocodeOutcome(req, r) ==
    IF r.net THEN Failure(503, "GEOCODING_SERVICE_ERROR")
    ELSE IF ~ResponseOk(r)
         THEN IF r.status = 401 THEN Failure(401, "MAPBOX_AUTH_ERROR")
              ELSE IF r.status = 429 THEN Failure(429, "MAPBOX_RATE_LIMIT")
              ELSE Failure(r.status, "MAPBOX_API_ERROR")
    ELSE IF r.body = "badjson" THEN Failure(503, "GEOCODING_SERVICE_ERROR")
    ELSE Success(Locations(req, r))

\* what getDirections does with the provider's answer
DirectionsOutcome(req, r) ==
    IF r.net THEN Failure(503, "DIRECTIONS_SERVICE_ERROR")
    ELSE IF ~ResponseOk(r)
         THEN IF r.status = 401 THEN Failure(401, "MAPBOX_AUTH_ERROR")
              ELSE IF r.status = 422 THEN Failure(422, "MAPBOX_INVALID_REQUEST")
              ELSE IF r.status = 429 THEN Failure(429, "MAPBOX_RATE_LIMIT")
              ELSE Failure(r.status, "MAPBOX_API_ERROR")
    ELSE IF r.body = "badjson" THEN Failure(503, "DIRECTIONS_SERVICE_ERROR")
    ELSE IF r.body = "empty" THEN Failure(404, "NO_ROUTE_FOUND")
    ELSE Success(RouteResult(req))

Outcome(kind, req, r) ==
    IF kind = "geocode" THEN GeocodeOutcome(req, r) ELSE DirectionsOutcome(req, r)

NoResponse == [net |-> FALSE, status |-> 0, body |-> "empty"]

Idle == [pc |-> "idle", kind |-> "none", req |-> <<>>, key |-> <<>>, calls |-> 0,
         from |-> "none", resp |-> NoResponse, res |-> Null, status |-> 0,
         code |-> "none"]

SameLookup(i, j) ==
    /\ inv[i].kind = inv[j].kind
    /\ inv[i].key = inv[j].key

\* (mutant) a miss waits for the fetch of an identical request already under way
FetchesOnMissCoalesced(i, kind, key) ==
    IF \E j \in Slots \ {i} :
          inv[j].pc = "fetching" /\ inv[j].kind = kind /\ inv[j].key = key
    THEN 0 ELSE 1

\* the number of fetch() calls a miss issues
FetchesOnMiss(i, kind, key) == 1

\* the invocation up to its `await fetch(...)`: key, cache lookup, hit or request
Begin(i, kind, req) ==
    LET c == CacheOf(kind)
        key == KeyOf(kind, req)
        cached == CacheGetResult(c, key)
        sent == FetchesOnMiss(i, kind, key)
    IN /\ inv[i].pc = "idle"
       /\ store' = StoreAfterGet(c, key)
       /\ cacheStats' = StatsAfterGet(c, key)
       /\ IF Truthy(cached)
          THEN /\ inv' = [inv EXCEPT ![i] =
                            [Idle EXCEPT !.pc = "done", !.kind = kind, !.req = req,
                                         !.key = key, !.from = "cache",
                                         !.res = cached, !.status = 200]]
               /\ UNCHANGED inflight
          ELSE /\ inv' = [inv EXCEPT ![i] =
                            [Idle EXCEPT !.pc = "fetching", !.kind = kind,
                                         !.req = req, !.key = key, !.calls = sent]]
               /\ inflight' = IF sent > 0 THEN inflight \cup {i} ELSE inflight
       /\ UNCHANGED <<enabled, cfgTtl, now, last, keyVars, metricsVars, gasVars,
                       errVars, batchVars, replaced>>

\* the provider answers invocation i, which runs on to its return or throw
Respond(i, r) ==
    LET kind == inv[i].kind
        out == Outcome(kind, inv[i].req, r)
    IN /\ inv[i].pc = "fetching"
       /\ i \in inflight
       /\ inflight' = inflight \ {i}
       /\ store' = IF out.ok
                   THEN StoreAfterSet(CacheOf(kind), inv[i].key, out.res, <<>>)
                   ELSE store
       /\ inv' = [inv EXCEPT ![i].pc = IF out.ok THEN "done" ELSE "failed",
                             ![i].from = "provider", ![i].resp = r,
                             ![i].res = out.res, ![i].status = out.status,
                             ![i].code = out.code]
       /\ UNCHANGED <<enabled, cfgTtl, now, cacheStats, last, keyVars, metricsVars,
                       gasVars, errVars, batchVars, replaced>>

ServiceTick ==
    /\ now < MaxServiceTime
    /\ now' = now + 1
    /\ UNCHANGED <<enabled, cfgTtl, store, cacheStats, last, otherVars>>

ServiceInit ==
    /\ InitCache
    /\ cfgTtl = [geocoding |-> 2, directions |-> 1]
    /\ inv = [i \in Slots |-> Idle]
    /\ inflight = {}
    /\ InitKey
    /\ InitMetrics
    /\ InitGas
    /\ InitErr
    /\ InitBatch

ServiceNext ==
    \/ \E i \in Slots, kind \in {"geocode", "directions"} :
          \E req \in RequestsOf(kind) : Begin(i, kind, req)
    \/ \E i \in Slots, r \in Responses : Respond(i, r)
    \/ \E c \in Caches : CheckData(c)
    \/ ServiceTick

Spec == ServiceInit /\ [][ServiceNext]_vars

\* a provider call that failed: fetch rejected, the status is not a 2xx one, the
\* body cannot be parsed, or (directions) the body holds no route
FailedCall(kind, r) ==
    \/ r.net
    \/ r.status < 200 \/ r.status > 299
    \/ r.body = "badjson"
    \/ kind = "directions" /\ r.body = "empty"

\* C4: an invocation whose provider call failed leaves both caches as they were,
\* and an entry appears or changes only in the step in which an invocation that
\* missed receives a successful answer, under that invocation's key.
C4_EntryOnlyAfterSuccessfulCall ==
    [][ /\ \A i \in Slots :
              (inv[i].pc = "fetching" /\ inv'[i].pc # "fetching"
                 /\ FailedCall(inv[i].kind, inv'[i].resp)) => store' = store
        /\ \A c \in Caches : \A k \in DOMAIN store'[c] :
              (k \notin DOMAIN store[c] \/ store'[c][k] # store[c][k])
                 => \E i \in Slots :
                       /\ inv[i].pc = "fetching" /\ inv'[i].pc = "done"
                       /\ ~FailedCall(inv[i].kind, inv'[i].resp)
                       /\ CacheOf(inv[i].kind) = c
                       /\ inv[i].key = k ]_vars

\* one invocation found no route and cached nothing, another one succeeded and
\* left its entry
C4_Witness ==
    \E i, j \in Slots :
        /\ inv[i].pc = "failed" /\ inv[i].code = "NO_ROUTE_FOUND"
        /\ store["directions"] = EmptyData
        /\ inv[j].pc = "done" /\ inv[j].from = "provider"
        /\ inv[j].key \in DOMAIN store["geocoding"]

\* C5 (as stated): every result getDirections returns is the result the same
\* request gets with the cache disabled, that is, the RouteResult built from the
\* provider's answer to that very request.
C5_CacheIsTransparent ==
    \A i \in Slots :
        (inv[i].pc = "done" /\ inv[i].kind = "directions")
            => inv[i].res = RouteResult(inv[i].req)

\* C6: two identical invocations that are both awaiting the provider have each
\* issued a fetch of their own; no invocation waits on another's fetch, and each
\* one whose own fetch is answered successfully has completed with a result.
C6_NoCoalescing ==
    /\ \A i, j \in Slots :
          (i # j /\ inv[i].pc = "fetching" /\ inv[j].pc = "fetching" /\ SameLookup(i, j))
             => /\ inv[i].calls = 1 /\ inv[j].calls = 1
                /\ {i, j} \subseteq inflight
    /\ \A i \in Slots : inv[i].pc = "fetching" => i \in inflight
    /\ \A i \in Slots :
          (inv[i].from = "provider" /\ ~FailedCall(inv[i].kind, inv[i].resp))
             => inv[i].pc = "done" /\ inv[i].calls = 1 /\ Truthy(inv[i].res)

\* two identical requests were both in flight and both came back with a result
C6_Witness ==
    /\ inv[1].pc = "done" /\ inv[2].pc = "done"
    /\ inv[1].from = "provider" /\ inv[2].from = "provider"
    /\ inv[1].kind = inv[2].kind /\ inv[1].req = inv[2].req
    /\ inflight = {}
    /\ \A c \in Caches : enabled[c]

\* C7: an invocation issues at most one provider call, and when that call has
\* failed the invocation has ended with an error: no value, an error code.
C7_FailureIsTerminal ==
    \A i \in Slots :
        /\ inv[i].calls <= 1
        /\ (inv[i].from = "provider" /\ FailedCall(inv[i].kind, inv[i].resp))
              => /\ inv[i].pc = "failed"
                 /\ inv[i].calls = 1
                 /\ inv[i].res = Null
                 /\ inv[i].code # "none"

\* fetch() rejected for a geocode call, which ended with the 503 service error
C7_Witness ==
    \E i \in Slots :
        /\ inv[i].pc = "failed" /\ inv[i].kind = "geocode" /\ inv[i].resp.net
        /\ inv[i].code = "GEOCODING_SERVICE_ERROR" /\ inv[i].status = 503


\* the ttl a set call asked for, as the cache contract words it: the argument,
\* or the configured default when the argument is omitted
RequestedTtl(c, arg) == IF arg = <<>> THEN cfgTtl[c] ELSE arg[1]

\* C1 (as stated): on an enabled cache, a get(k) issued right after set(k, v)
\* returns v, whatever the value v is.
C1_RoundTripAnyValue ==
    (last.op = "get" /\ enabled[last.c] /\ last.seen.at = now /\ last.seen.arg = <<>>)
        => last.res = last.seen.v

\* C2 (as stated): a get(k) issued once ttl seconds have passed since the latest
\* set(k, v, ttl) returns absent, ttl being the default when omitted.
C2_ExpiredAtTtl ==
    (last.op = "get" /\ last.seen.at >= 0
       /\ now - last.seen.at >= RequestedTtl(last.c, last.seen.arg))
        => last.res = Null

\* C2 (amended): let e be the ttl argument when it is given and not 0, and the
\* configured default otherwise.  When e is not 0, a get(k) issued strictly more
\* than e seconds after the latest set(k, ..) returns absent.
C2_ExpiredAfterTtl ==
    LET e == IF last.seen.arg = <<>> \/ last.seen.arg[1] = 0
             THEN cfgTtl[last.c] ELSE last.seen.arg[1]
    IN (last.op = "get" /\ last.seen.at >= 0 /\ e # 0 /\ now - last.seen.at > e)
           => last.res = Null

\* a get found the entry of an earlier set, past its ttl, and reported a miss
C2_Witness ==
    /\ last.op = "get" /\ last.seen.at >= 0 /\ Truthy(last.seen.v)
    /\ last.seen.arg # <<>> /\ last.seen.arg[1] = 1
    /\ now - last.seen.at = 2
    /\ last.res = Null

\* C3: while a cache is disabled it never holds an entry, every get returns
\* absent and every set reports failure.
C3_DisabledCacheInert ==
    /\ \A c \in Caches : ~enabled[c] => store[c] = EmptyData
    /\ (last.op = "get" /\ ~enabled[last.c]) => last.res = Null
    /\ (last.op = "set" /\ ~enabled[last.c]) => ~last.ok

\* a set was just refused by a disabled cache, after time has passed
C3_Witness ==
    /\ ~enabled[last.c] /\ last.op = "set" /\ ~last.ok /\ now > 0
    /\ store[last.c] = EmptyData

----------------------------------------------------------------------------
(* EmissionsService.calculateMetrics.  Distances are whole metres.  Amounts  *)
(* are kept as integers in the unit of their last kept decimal: emissions   *)
(* in thousandths of a kg (carbonEmissions * 1000), cost in hundredths      *)
(* (estimatedCost * 100); the factors per km are scaled alike, so that      *)
(* distanceKm * factor is the fraction distance * factor / 1000.            *)

MaxDistance == 2000

TransportModeIds == {"walking", "cycling", "driving", "transit"}

\* property names every object literal inherits from Object.prototype
InheritedNames == {"constructor"}

\* mode ids that are none of the four
UnknownModes == {"flying"} \cup InheritedNames

\* `transportModes[mode]` is truthy: an entry of the table, or a member of
\* Object.prototype found through the prototype chain of the literal
HasTransportMode(mode) == mode \in TransportModeIds \cup InheritedNames

\* the locationContext of a MetricsRequest: <<>> when absent
MetricsContexts == { <<>>, << [country |-> "US", region |-> "Texas"] >> }

\* the distances calculateMetrics is called with
Distances == 0..MaxDistance \cup {10000, 500001, 999999, 1000000}

\* (mutant) cycling carries its lifecycle emissions of 0.021 kg per km
EmissionsFactorLifecycle(mode) ==
    CASE mode = "walking" -> 0
      [] mode = "cycling" -> 21
      [] mode = "driving" -> 180
      [] mode = "transit" -> 89

\* transportModes[mode].emissionsFactor * 1000
EmissionsFactor(mode) ==
    CASE mode = "walking" -> 0
      [] mode = "cycling" -> 0
      [] mode = "driving" -> 180
      [] mode = "transit" -> 89

\* transportModes[mode].costFactor * 100
CostFactor(mode) ==
    CASE mode = "walking" -> 0
      [] mode = "cycling" -> 0
      [] mode = "driving" -> 45
      [] mode = "transit" -> 15

\* transportModes[mode].caloriesFactor: <<>> where the mode has none
CaloriesFactor(mode) ==
    CASE mode = "walking" -> <<45>>
      [] mode = "cycling" -> <<35>>
      [] OTHER -> <<>>

\* The products are computed in IEEE-754 doubles.  Where distance * factor is
\* not exactly halfway between two roundings, Math.round of the double is
\* the rounding of the exact product.  Where it is exactly halfway, the
\* double lands on the half (and Math.round goes up) or just below it (and
\* Math.round goes down); these are the distances up to 3100 m for which it
\* lands below, for each product and mode.
BelowHalf(quantity, mode) ==
    CASE quantity = "emissions" /\ mode = "driving" ->
            {475, 625, 775, 1025, 1075, 1125, 1275, 1525, 1775, 1825, 1875,
             2175, 2425, 2525, 2675, 2775}
      [] quantity = "emissions" /\ mode = "transit" -> {2500}
      [] quantity = "cost" /\ mode = "driving" -> {2300}
      [] quantity = "cost" /\ mode = "transit" -> {1500, 1900}
      [] quantity = "calories" /\ mode = "walking" -> {700, 2300}
      [] OTHER -> {}

\* (mutant) the fraction is cut off instead of rounded
MathTrunc(num, den, below) == num \div den

\* Math.round of the double computed for num / den (num >= 0): the nearest
\* integer, a half going up unless the double fell below it
MathRound(num, den, below) ==
    IF 2 * (num % den) = den /\ below
    THEN num \div den
    ELSE (2 * num + den) \div (2 * den)

\* (mutant) the emissions are rounded to whole kilograms
CalculateCarbonEmissionsWholeKg(distance, mode) ==
    1000 * MathRound(distance * EmissionsFactor(mode), 1000000, FALSE)

\* (mutant) the emissions are reported relative to driving the same distance
CalculateCarbonSaved(distance, mode) ==
    MathRound(distance * (EmissionsFactor(mode) - EmissionsFactor("driving")), 1000,
              FALSE)

\* calculateCarbonEmissions: Math.round(distanceKm * emissionsFactor * 1000) / 1000
CalculateCarbonEmissions(distance, mode) ==
    MathRound(distance * EmissionsFactor(mode), 1000,
              distance \in BelowHalf("emissions", mode))

\* (mutant) the cost is rounded to whole currency units
CalculateCostWholeUnits(distance, mode) ==
    100 * MathRound(distance * CostFactor(mode), 100000, FALSE)

\* calculateCost: Math.round(distanceKm * costFactor * 100) / 100
CalculateCost(distance, mode) ==
    MathRound(distance * CostFactor(mode), 1000,
              distance \in BelowHalf("cost", mode))

\* (mutant) calories is a number for every mode, 0 where there is no factor
CaloriesAlwaysPresent(distance, mode) ==
    IF CaloriesFactor(mode) = <<>> THEN <<0>>
    ELSE << MathRound(distance * CaloriesFactor(mode)[1], 1000,
                      distance \in BelowHalf("calories", mode)) >>

\* `caloriesFactor ? Math.round(distanceKm * caloriesFactor) : undefined`
Calories(distance, mode) ==
    IF CaloriesFactor(mode) = <<>> \/ CaloriesFactor(mode)[1] = 0
    THEN <<>>
    ELSE << MathRound(distance * CaloriesFactor(mode)[1], 1000,
                      distance \in BelowHalf("calories", mode)) >>

\* (mutant) the upper bounds of the bands are exclusive
GetEnvironmentalRatingExclusive(carbonEmissions, distance) ==
    IF distance = 0 THEN "A"
    ELSE IF carbonEmissions = 0 THEN "A"
    ELSE IF 100 * carbonEmissions < 5 * distance THEN "A"
    ELSE IF 10 * carbonEmissions < distance THEN "B"
    ELSE IF 100 * carbonEmissions < 15 * distance THEN "C"
    ELSE IF 100 * carbonEmissions < 25 * distance THEN "D"
    ELSE "E"

\* getEnvironmentalRating(carbonEmissions, distanceKm): emissionsPerKm is
\* (carbonEmissions / 1000) / (distance / 1000) kg per km
GetEnvironmentalRating(carbonEmissions, distance) ==
    IF distance = 0 THEN "A"
    ELSE IF carbonEmissions = 0 THEN "A"
    ELSE IF 100 * carbonEmissions <= 5 * distance THEN "A"
    ELSE IF 10 * carbonEmissions <= distance THEN "B"
    ELSE IF 100 * carbonEmissions <= 15 * distance THEN "C"
    ELSE IF 100 * carbonEmissions <= 25 * distance THEN "D"
    ELSE "E"

\* getHealthImpact: which of the mode's messages is returned
GetHealthImpact(mode, distance) ==
    CASE mode = "walking" ->
            IF distance < 1000 THEN "walking-great-choice"
            ELSE IF distance < 3000 THEN "walking-excellent-exercise"
            ELSE "walking-fantastic-workout"
      [] mode = "cycling" ->
            IF distance < 2000 THEN "cycling-good-exercise"
            ELSE IF distance < 10000 THEN "cycling-great-workout"
            ELSE "cycling-amazing-exercise"
      [] mode = "transit" ->
            IF distance < 5000 THEN "transit-eco-friendly" ELSE "transit-smart"
      [] mode = "driving" ->
            IF distance < 2000 THEN "driving-consider-walking"
            ELSE IF distance < 5000 THEN "driving-consider-cycling"
            ELSE "driving-consider-carpooling"
      [] OTHER -> "consider-the-impacts"

\* the call threw `Unknown transport mode`
MetricsError ==
    [ok |-> FALSE, nan |-> FALSE, carbonEmissions |-> 0, estimatedCost |-> 0,
     costRange |-> <<>>, calories |-> <<>>, healthImpact |-> "none",
     environmentalRating |-> "none", emissionsFactor |-> 0]

\* the metrics computed from an inherited member, whose emissionsFactor,
\* costFactor and caloriesFactor are undefined: carbonEmissions and
\* estimatedCost are NaN (nan; the number fields then hold no value), calories
\* is undefined, and every comparison of the rating with NaN is false
MetricsOfInherited(request) ==
    [ok |-> TRUE, nan |-> TRUE, carbonEmissions |-> 0, estimatedCost |-> 0,
     costRange |-> <<>>, calories |-> <<>>,
     healthImpact |-> GetHealthImpact(request.mode, request.distance),
     environmentalRating |-> IF request.distance = 0 THEN "A" ELSE "E",
     emissionsFactor |-> 0]

\* calculateMetrics(request): `const { distance, mode } = request` is all that
\* is read of the request, and the metrics literal has no costRange property
CalculateMetricsResult(request) ==
    IF ~HasTransportMode(request.mode) THEN MetricsError
    ELSE IF request.mode \in InheritedNames THEN MetricsOfInherited(request)
    ELSE LET carbonEmissions == CalculateCarbonEmissions(request.distance, request.mode)
         IN [ok |-> TRUE, nan |-> FALSE,
             carbonEmissions |-> carbonEmissions,
             estimatedCost |-> CalculateCost(request.distance, request.mode),
             costRange |-> <<>>,
             calories |-> Calories(request.distance, request.mode),
             healthImpact |-> GetHealthImpact(request.mode, request.distance),
             environmentalRating |->
                 GetEnvironmentalRating(carbonEmissions, request.distance),
             emissionsFactor |-> EmissionsFactor(request.mode)]

CalculateMetrics ==
    /\ metricsOut = <<>>
    /\ metricsOut' = << CalculateMetricsResult(metricsIn) >>
    /\ UNCHANGED <<metricsIn, cacheVars, serviceVars, keyVars, gasVars, errVars, batchVars, replaced>>

MetricsInit ==
    /\ InitCache
    /\ \A c \in Caches : enabled[c]
    /\ cfgTtl = [geocoding |-> 2, directions |-> 1]
    /\ InitService
    /\ InitKey
    /\ metricsIn \in [distance : Distances, mode : TransportModeIds \cup UnknownModes,
                      locationContext : MetricsContexts]
    /\ metricsOut = <<>>
    /\ InitGas
    /\ InitErr
    /\ InitBatch

MetricsNext == CalculateMetrics

SpecMetrics == MetricsInit /\ [][MetricsNext]_vars

\* calculateMetrics has returned for one of the four modes
Returned ==
    /\ metricsOut # <<>>
    /\ metricsIn.mode \in TransportModeIds

\* C9: for every distance and each of the four modes, carbonEmissions is
\* distance/1000 times the mode's emissionsFactor rounded to 3 decimals: a
\* whole number of thousandths, not negative, no further than half a
\* thousandth from the product; 10000 m of driving give 1.8.
C9_EmissionsRoundedTo3Decimals ==
    Returned =>
        LET product == metricsIn.distance * EmissionsFactor(metricsIn.mode)
            thousandths == metricsOut[1].carbonEmissions
        IN /\ metricsOut[1].ok
           /\ thousandths >= 0
           /\ 2 * (1000 * thousandths - product) <= 1000
           /\ 2 * (product - 1000 * thousandths) <= 1000
           /\ (metricsIn.distance = 10000 /\ metricsIn.mode = "driving")
                 => thousandths = 1800

\* 1609 m by transit: 0.143201 kg, returned as 0.143
C9_Witness ==
    /\ Returned
    /\ metricsIn.distance = 1609 /\ metricsIn.mode = "transit"
    /\ metricsOut[1].carbonEmissions = 143

\* C10: for every distance, walking and cycling return carbonEmissions 0 and
\* environmentalRating 'A'.
C10_ActiveModesZeroAndA ==
    (Returned /\ metricsIn.mode \in {"walking", "cycling"})
        => /\ metricsOut[1].carbonEmissions = 0
           /\ metricsOut[1].environmentalRating = "A"

\* a 2 km cycling trip came back with no emissions and rating A
C10_Witness ==
    /\ Returned
    /\ metricsIn.mode = "cycling" /\ metricsIn.distance = 2000
    /\ metricsOut[1].carbonEmissions = 0
    /\ metricsOut[1].environmentalRating = "A"

\* the band of emissionsPerKm = (kg / 1000) / (m / 1000), given as the ratio
\* of thousandths of a kg to metres: the first of A..E whose inclusive upper
\* bound 0.05, 0.10, 0.15, 0.25 (as hundredths) is not exceeded
RatingBand(thousandths, metres) ==
    LET fits(hundredths) == 100 * thousandths <= hundredths * metres
    IN CASE fits(5) -> "A"
         [] ~fits(5) /\ fits(10) -> "B"
         [] ~fits(10) /\ fits(15) -> "C"
         [] ~fits(15) /\ fits(25) -> "D"
         [] OTHER -> "E"

\* C11: environmentalRating is the band of the returned (rounded)
\* carbonEmissions per km, with inclusive upper bounds 0.05 A, 0.10 B, 0.15 C,
\* 0.25 D, above that E; a distance of 0 gives A.
C11_RatingFromRoundedEmissions ==
    Returned =>
        IF metricsIn.distance = 0
        THEN metricsOut[1].environmentalRating = "A"
        ELSE metricsOut[1].environmentalRating
                = RatingBand(metricsOut[1].carbonEmissions, metricsIn.distance)

\* 4 m of driving: 0.00072 kg rounds to 0.001 kg, which is exactly 0.25 kg per
\* km and rated D (the unrounded 0.18 kg per km would also be D; 3 m, rounded
\* to 0.001 kg, is 0.333 kg per km)
C11_Witness ==
    /\ Returned
    /\ metricsIn.mode = "driving" /\ metricsIn.distance = 4
    /\ metricsOut[1].carbonEmissions = 1
    /\ metricsOut[1].environmentalRating = "D"

\* C12 (as stated): for every mode value that is not one of the four,
\* calculateMetrics fails with the unknown-mode error and returns no metrics.
C12_UnknownModeFails ==
    (metricsOut # <<>> /\ metricsIn.mode \notin TransportModeIds)
        => ~metricsOut[1].ok

----------------------------------------------------------------------------
(* GasPriceService.  Prices are whole cents per gallon, costs per km whole  *)
(* cents (hundredths, the last decimal getCostRange keeps).  A string that  *)
(* is absent is "undefined"; a locationContext is <<>> when absent and      *)
(* <<[country, region]>> otherwise.                                         *)

\* gasPriceDatabase, in the order of the array
gasPriceDatabase ==
    << [country |-> "US", region |-> "California", pricePerGallon |-> 480],
       [country |-> "US", region |-> "New York", pricePerGallon |-> 365],
       [country |-> "US", region |-> "Texas", pricePerGallon |-> 310],
       [country |-> "US", region |-> "Florida", pricePerGallon |-> 335],
       [country |-> "US", region |-> "Illinois", pricePerGallon |-> 375],
       [country |-> "US", region |-> "Pennsylvania", pricePerGallon |-> 360],
       [country |-> "US", region |-> "Ohio", pricePerGallon |-> 340],
       [country |-> "US", region |-> "Georgia", pricePerGallon |-> 325],
       [country |-> "US", region |-> "North Carolina", pricePerGallon |-> 330],
       [country |-> "US", region |-> "Michigan", pricePerGallon |-> 355],
       [country |-> "US", region |-> "New Jersey", pricePerGallon |-> 345],
       [country |-> "US", region |-> "Virginia", pricePerGallon |-> 335],
       [country |-> "US", region |-> "Washington", pricePerGallon |-> 450],
       [country |-> "US", region |-> "Arizona", pricePerGallon |-> 360],
       [country |-> "US", region |-> "Massachusetts", pricePerGallon |-> 355],
       [country |-> "US", region |-> "Tennessee", pricePerGallon |-> 320],
       [country |-> "US", region |-> "Indiana", pricePerGallon |-> 345],
       [country |-> "US", region |-> "Missouri", pricePerGallon |-> 315],
       [country |-> "US", region |-> "Maryland", pricePerGallon |-> 350],
       [country |-> "US", region |-> "Wisconsin", pricePerGallon |-> 335],
       [country |-> "US", region |-> "Colorado", pricePerGallon |-> 355],
       [country |-> "US", region |-> "Minnesota", pricePerGallon |-> 340],
       [country |-> "US", region |-> "undefined", pricePerGallon |-> 350],
       [country |-> "CA", region |-> "Ontario", pricePerGallon |-> 420],
       [country |-> "CA", region |-> "Quebec", pricePerGallon |-> 435],
       [country |-> "CA", region |-> "British Columbia", pricePerGallon |-> 465],
       [country |-> "CA", region |-> "Alberta", pricePerGallon |-> 385],
       [country |-> "CA", region |-> "undefined", pricePerGallon |-> 425],
       [country |-> "GB", region |-> "undefined", pricePerGallon |-> 680],
       [country |-> "DE", region |-> "undefined", pricePerGallon |-> 650],
       [country |-> "FR", region |-> "undefined", pricePerGallon |-> 690],
       [country |-> "IT", region |-> "undefined", pricePerGallon |-> 710],
       [country |-> "ES", region |-> "undefined", pricePerGallon |-> 620],
       [country |-> "NL", region |-> "undefined", pricePerGallon |-> 750],
       [country |-> "AU", region |-> "undefined", pricePerGallon |-> 520],
       [country |-> "NZ", region |-> "undefined", pricePerGallon |-> 550],
       [country |-> "MX", region |-> "undefined", pricePerGallon |-> 380],
       [country |-> "JP", region |-> "undefined", pricePerGallon |-> 540],
       [country |-> "KR", region |-> "undefined", pricePerGallon |-> 560] >>

DEFAULT_GAS_PRICE == 380

\* ToBoolean of an optional string
StringTruthy(str) == str \notin {"undefined", ""}

\* Array.prototype.find, given the indices of the elements that satisfy the
\* test: the first of those elements, <<>> if there is none
Find(array, hits) ==
    IF hits = {} THEN <<>>
    ELSE << array[CHOOSE i \in hits : \A j \in hits : i <= j] >>

\* (mutant) the country-level entry is not looked for
GetGasPriceExactOrDefault(locationContext) ==
    IF locationContext = <<>> THEN DEFAULT_GAS_PRICE
    ELSE LET country == locationContext[1].country
             region == locationContext[1].region
             exactMatch ==
                 IF StringTruthy(country) /\ StringTruthy(region)
                 THEN Find(gasPriceDatabase,
                           { i \in DOMAIN gasPriceDatabase :
                               /\ gasPriceDatabase[i].country = country
                               /\ gasPriceDatabase[i].region = region })
                 ELSE <<>>
         IN IF exactMatch # <<>> THEN exactMatch[1].pricePerGallon
            ELSE DEFAULT_GAS_PRICE

\* getGasPriceForLocation
GetGasPriceForLocation(locationContext) ==
    IF locationContext = <<>> THEN DEFAULT_GAS_PRICE
    ELSE LET country == locationContext[1].country
             region == locationContext[1].region
             exactMatch ==
                 IF StringTruthy(country) /\ StringTruthy(region)
                 THEN Find(gasPriceDatabase,
                           { i \in DOMAIN gasPriceDatabase :
                               /\ gasPriceDatabase[i].country = country
                               /\ gasPriceDatabase[i].region = region })
                 ELSE <<>>
             countryMatch ==
                 IF StringTruthy(country)
                 THEN Find(gasPriceDatabase,
                           { i \in DOMAIN gasPriceDatabase :
                               /\ gasPriceDatabase[i].country = country
                               /\ ~StringTruthy(gasPriceDatabase[i].region) })
                 ELSE <<>>
         IN IF exactMatch # <<>> THEN exactMatch[1].pricePerGallon
            ELSE IF countryMatch # <<>> THEN countryMatch[1].pricePerGallon
            ELSE DEFAULT_GAS_PRICE

\* VEHICLE_EFFICIENCY, miles per gallon
VEHICLE_EFFICIENCY == [efficient |-> 35, average |-> 25, inefficient |-> 18]

\* Math.round(calculateCostPerKm(gasPrice, mpg) * 100): the price over
\* mpg * 1.60934 km per gallon, in whole cents per km.  No price of the table
\* puts the quotient halfway between two cents.
CostPerKmCents(gasPrice, milesPerGallon) ==
    MathRound(gasPrice * 100000, milesPerGallon * 160934, FALSE)

\* (mutant) min is taken at the inefficient and max at the efficient vehicle
GetCostRangeSwapped(locationContext) ==
    LET gasPrice == GetGasPriceForLocation(locationContext)
    IN [min |-> CostPerKmCents(gasPrice, VEHICLE_EFFICIENCY.inefficient),
        max |-> CostPerKmCents(gasPrice, VEHICLE_EFFICIENCY.efficient),
        average |-> CostPerKmCents(gasPrice, VEHICLE_EFFICIENCY.average),
        gasPricePerGallon |-> gasPrice]

\* getCostRange
GetCostRange(locationContext) ==
    LET gasPrice == GetGasPriceForLocation(locationContext)
    IN [min |-> CostPerKmCents(gasPrice, VEHICLE_EFFICIENCY.efficient),
        max |-> CostPerKmCents(gasPrice, VEHICLE_EFFICIENCY.inefficient),
        average |-> CostPerKmCents(gasPrice, VEHICLE_EFFICIENCY.average),
        gasPricePerGallon |-> gasPrice]

GasCountries == {"undefined", "", "US", "CA", "GB", "DE", "ZZ", "us"}
GasRegions == {"undefined", "", "Texas", "Ontario", "Quebec", "Nowhereville", "texas"}
LocationContexts ==
    {<<>>} \cup { <<ctx>> : ctx \in [country : GasCountries, region : GasRegions] }

\* An optional string whose characters matter: absent, or its characters
NoString == [defined |-> FALSE, chars |-> <<>>]
Str(chars) == [defined |-> TRUE, chars |-> chars]

\* ToBoolean of such a string
StrTruthy(str) == str.defined /\ str.chars # <<>>

UpperOf(ch) ==
    CASE ch = "a" -> "A" [] ch = "c" -> "C" [] ch = "n" -> "N" [] ch = "o" -> "O"
      [] ch = "s" -> "S" [] ch = "u" -> "U" [] ch = "w" -> "W" [] OTHER -> ch

\* String.prototype.toUpperCase
ToUpperCase(chars) == [i \in DOMAIN chars |-> UpperOf(chars[i])]

\* String.prototype.replace(pattern, ''): the first occurrence of the pattern
\* is taken out
RemoveFirst(chars, pattern) ==
    LET at == { i \in 1..(Len(chars) - Len(pattern) + 1) :
                   SubSeq(chars, i, i + Len(pattern) - 1) = pattern }
    IN IF at = {} THEN chars
       ELSE LET first == CHOOSE i \in at : \A j \in at : i <= j
            IN SubSeq(chars, 1, first - 1)
                  \o SubSeq(chars, first + Len(pattern), Len(chars))

\* String.prototype.split(separator), the separator being one character
RECURSIVE Split(_, _)
Split(chars, separator) ==
    LET at == { i \in DOMAIN chars : chars[i] = separator }
    IN IF at = {} THEN << chars >>
       ELSE LET first == CHOOSE i \in at : \A j \in at : i <= j
            IN << SubSeq(chars, 1, first - 1) >>
                  \o Split(SubSeq(chars, first + 1, Len(chars)), separator)

\* String.prototype.substring(0, 2)
Substring02(chars) == SubSeq(chars, 1, IF Len(chars) < 2 THEN Len(chars) ELSE 2)

\* a context item: its id is namespace "." rest
\* `short_code?.toUpperCase().replace('US-', '').replace('GB-', '') ||
\*  id.split('.')[1]?.substring(0, 2).toUpperCase()` of a "country." item
CountryOfItem(item) ==
    LET code == RemoveFirst(RemoveFirst(ToUpperCase(item.short_code.chars),
                                        <<"U", "S", "-">>), <<"G", "B", "-">>)
    IN IF item.short_code.defined /\ code # <<>>
       THEN Str(code)
       ELSE Str(ToUpperCase(Substring02(Split(item.rest, ".")[1])))

\* `item.short_code?.includes('-')`
HasHyphen(item) ==
    item.short_code.defined /\ \E i \in DOMAIN item.short_code.chars :
                                   item.short_code.chars[i] = "-"

\* one turn of the loop over the context items
ParseItem(item, found) ==
    IF item.ns = "country"
    THEN [found EXCEPT !.country = CountryOfItem(item)]
    ELSE IF item.ns = "region"
    THEN [found EXCEPT !.region = item.text]
    ELSE IF HasHyphen(item)
    THEN LET parts == Split(item.short_code.chars, "-")
         IN IF Len(parts) = 2
            THEN [country |-> Str(ToUpperCase(parts[1])),
                  region |-> IF ~StringTruthy(found.region)
                             THEN item.text ELSE found.region]
            ELSE found
    ELSE found

RECURSIVE ParseItems(_, _)
ParseItems(items, found) ==
    IF items = <<>> THEN found
    ELSE ParseItems(Tail(items), ParseItem(Head(items), found))

NothingFound == [country |-> NoString, region |-> "undefined"]

\* parseLocationContext: <<>> for undefined, else << [country, region] >>
ParseLocationContext(mapboxContext) ==
    IF ~mapboxContext.given \/ Len(mapboxContext.items) = 0 THEN <<>>
    ELSE LET found == ParseItems(mapboxContext.items, NothingFound)
         IN IF StrTruthy(found.country) THEN << found >> ELSE <<>>

MaxItems == 3

\* the items a provider context is made of
ContextItems ==
    { [ns |-> "country", rest |-> <<"1">>, text |-> "United States",
       short_code |-> Str(<<"u", "s">>)],
      [ns |-> "country", rest |-> <<"c", "a", "n">>, text |-> "Canada",
       short_code |-> NoString],
      [ns |-> "country", rest |-> <<>>, text |-> "Nowhere", short_code |-> Str(<<>>)],
      [ns |-> "region", rest |-> <<"2">>, text |-> "California",
       short_code |-> Str(<<"U", "S", "-", "C", "A">>)],
      [ns |-> "region", rest |-> <<"3">>, text |-> "Ontario", short_code |-> NoString],
      [ns |-> "district", rest |-> <<"4">>, text |-> "King County",
       short_code |-> Str(<<"u", "s", "-", "w", "a">>)],
      [ns |-> "place", rest |-> <<"5">>, text |-> "Toronto",
       short_code |-> Str(<<"c", "a", "-", "o", "n">>)],
      [ns |-> "place", rest |-> <<"6">>, text |-> "Paris", short_code |-> NoString],
      [ns |-> "postcode", rest |-> <<"7">>, text |-> "A1",
       short_code |-> Str(<<"a", "-", "o", "-", "n">>)] }

MapboxContexts ==
    { [given |-> FALSE, items |-> <<>>] }
       \cup { [given |-> TRUE, items |-> items] :
                 items \in UNION { [1..n -> ContextItems] : n \in 0..MaxItems } }

NoMapboxContext == [given |-> FALSE, items |-> <<>>]

NoGasResult ==
    [min |-> 0, max |-> 0, average |-> 0, gasPricePerGallon |-> 0, parsed |-> <<>>]

\* a call of getGasPriceForLocation returns
CallGetGasPriceForLocation ==
    /\ gasOut = <<>>
    /\ gasIn.op = "getGasPriceForLocation"
    /\ gasOut' = << [NoGasResult EXCEPT
                       !.gasPricePerGallon = GetGasPriceForLocation(gasIn.locationContext)] >>
    /\ UNCHANGED <<gasIn, cacheVars, serviceVars, keyVars, metricsVars, errVars, batchVars, replaced>>

\* a call of getCostRange returns
CallGetCostRange ==
    /\ gasOut = <<>>
    /\ gasIn.op = "getCostRange"
    /\ gasOut' = << LET range == GetCostRange(gasIn.locationContext)
                    IN [NoGasResult EXCEPT
                          !.min = range.min, !.max = range.max,
                          !.average = range.average,
                          !.gasPricePerGallon = range.gasPricePerGallon] >>
    /\ UNCHANGED <<gasIn, cacheVars, serviceVars, keyVars, metricsVars, errVars, batchVars, replaced>>

\* a call of parseLocationContext returns
CallParseLocationContext ==
    /\ gasOut = <<>>
    /\ gasIn.op = "parseLocationContext"
    /\ gasOut' = << [NoGasResult EXCEPT
                       !.parsed = ParseLocationContext(gasIn.mapboxContext)] >>
    /\ UNCHANGED <<gasIn, cacheVars, serviceVars, keyVars, metricsVars, errVars, batchVars, replaced>>

GasInit ==
    /\ InitCache
    /\ \A c \in Caches : enabled[c]
    /\ cfgTtl = [geocoding |-> 2, directions |-> 1]
    /\ InitService
    /\ InitKey
    /\ InitMetrics
    /\ gasIn \in [op : {"getGasPriceForLocation", "getCostRange"},
                  locationContext : LocationContexts,
                  mapboxContext : {NoMapboxContext}]
                 \cup [op : {"parseLocationContext"}, locationContext : {<<>>},
                       mapboxContext : MapboxContexts]
    /\ gasOut = <<>>
    /\ InitErr
    /\ InitBatch

GasNext ==
    \/ CallGetGasPriceForLocation
    \/ CallGetCostRange
    \/ CallParseLocationContext

SpecGas == GasInit /\ [][GasNext]_vars

\* the table entries of a country with a given region ("undefined": the
\* country's aggregate entry)
EntriesOf(country, region) ==
    { gasPriceDatabase[i].pricePerGallon : i \in
        { j \in DOMAIN gasPriceDatabase :
            /\ gasPriceDatabase[j].country = country
            /\ gasPriceDatabase[j].region = region } }

\* the price the lookup order promises
PromisedPrice(locationContext) ==
    IF locationContext = <<>> \/ locationContext[1].country = "undefined"
    THEN {380}
    ELSE LET country == locationContext[1].country
             region == locationContext[1].region
         IN IF region # "undefined" /\ EntriesOf(country, region) # {}
            THEN EntriesOf(country, region)
            ELSE IF EntriesOf(country, "undefined") # {}
                 THEN EntriesOf(country, "undefined")
                 ELSE {380}

\* C20: getGasPriceForLocation always returns a price: that of the exact
\* (country, region) entry if there is one, else that of the country's
\* no-region entry if there is one, else the global default 3.80; an absent
\* context or one without a country gets the default.  US/Texas gives 3.10,
\* US/Nowhereville 3.50, ZZ 3.80.
C20_GasPriceLookupOrder ==
    (gasOut # <<>> /\ gasIn.op = "getGasPriceForLocation")
        => LET price == gasOut[1].gasPricePerGallon
               ctx == gasIn.locationContext
           IN /\ price \in PromisedPrice(ctx)
              /\ (ctx = << [country |-> "US", region |-> "Texas"] >>) => price = 310
              /\ (ctx = << [country |-> "US", region |-> "Nowhereville"] >>)
                    => price = 350
              /\ (ctx # <<>> /\ ctx[1].country = "ZZ") => price = 380

\* US/Nowhereville was looked up and came back with the US aggregate price
C20_Witness ==
    /\ gasOut # <<>> /\ gasIn.op = "getGasPriceForLocation"
    /\ gasIn.locationContext = << [country |-> "US", region |-> "Nowhereville"] >>
    /\ gasOut[1].gasPricePerGallon = 350

\* C13 (as stated): for driving with a locationContext, calculateMetrics
\* returns getCostRange(locationContext)'s {min, max, average} as costRange
\* and its average as estimatedCost.
C13_DrivingUsesCostRange ==
    (Returned /\ metricsIn.mode = "driving" /\ metricsIn.locationContext # <<>>)
        => LET range == GetCostRange(metricsIn.locationContext)
           IN /\ metricsOut[1].costRange
                    = << [min |-> range.min, max |-> range.max,
                          average |-> range.average] >>
              /\ metricsOut[1].estimatedCost = range.average

\* C14: for every mode but driving, and for driving without a locationContext,
\* estimatedCost is distanceKm times the mode's costFactor (0, 0, 0.45, 0.15)
\* rounded to 2 decimals: a whole number of hundredths no further than half a
\* hundredth from the product; walking and cycling always cost 0.
C14_StaticCostRoundedTo2Decimals ==
    (Returned /\ (metricsIn.mode # "driving" \/ metricsIn.locationContext = <<>>))
        => LET hundredthsPerKm == CASE metricsIn.mode = "driving" -> 45
                                    [] metricsIn.mode = "transit" -> 15
                                    [] OTHER -> 0
               product == metricsIn.distance * hundredthsPerKm
               hundredths == metricsOut[1].estimatedCost
           IN /\ 2 * (1000 * hundredths - product) <= 1000
              /\ 2 * (product - 1000 * hundredths) <= 1000
              /\ metricsIn.mode \in {"walking", "cycling"} => hundredths = 0

\* 1609 m by transit without a locationContext: 0.24135, returned as 0.24
C14_Witness ==
    /\ Returned
    /\ metricsIn.mode = "transit" /\ metricsIn.distance = 1609
    /\ metricsIn.locationContext = <<>>
    /\ metricsOut[1].estimatedCost = 24

\* C15: calories is present exactly for walking and cycling, and is then the
\* integer nearest to distanceKm times 45 (walking) or 35 (cycling); it is
\* absent for driving and transit.  1609 m of walking give 72.
C15_CaloriesForActiveModes ==
    Returned =>
        LET calories == metricsOut[1].calories
            perKm == IF metricsIn.mode = "walking" THEN 45 ELSE 35
            product == metricsIn.distance * perKm
        IN IF metricsIn.mode \in {"walking", "cycling"}
           THEN /\ Len(calories) = 1
                /\ 2 * (1000 * calories[1] - product) <= 1000
                /\ 2 * (product - 1000 * calories[1]) <= 1000
                /\ (metricsIn.mode = "walking" /\ metricsIn.distance = 1609)
                      => calories[1] = 72
           ELSE calories = <<>>

\* 1609 m of walking came back with 72 calories
C15_Witness ==
    /\ Returned
    /\ metricsIn.mode = "walking" /\ metricsIn.distance = 1609
    /\ metricsOut[1].calories = <<72>>

\* C16: for every distance and valid mode, carbonEmissions, estimatedCost and
\* calories (when present) are not negative.
C16_MetricsNotNegative ==
    Returned =>
        /\ metricsOut[1].carbonEmissions >= 0
        /\ metricsOut[1].estimatedCost >= 0
        /\ \A i \in DOMAIN metricsOut[1].calories : metricsOut[1].calories[i] >= 0

\* a 2 km transit trip came back with 0.178 kg and a cost of 0.30
C16_Witness ==
    /\ Returned
    /\ metricsIn.distance = 2000 /\ metricsIn.mode = "transit"
    /\ metricsOut[1].carbonEmissions = 178
    /\ metricsOut[1].estimatedCost = 30

----------------------------------------------------------------------------
(* POST /api/metrics/compare, with compareTransportModes and               *)
(* getRecommendations behind it.  The request body is in metricsIn: its    *)
(* distance is a JavaScript value, its modes [isArray, items].  The        *)
(* response is in metricsOut.                                              *)

MaxModes == 3

\* distances on both sides of every band of getRecommendations; at none of
\* them is a product halfway between two roundings
CompareDistances == {0, 1, 2, 3, 4, 12, 999, 1000, 2999, 3000, 7999, 8000}

\* Infinity, which JSON.parse returns for a literal such as 1e999: typeof
\* gives 'number', and n stands for its place in every comparison with a
\* finite number (no arithmetic is done on it)
PositiveInfinity == [tag |-> "infinity", n |-> 2147483647]

\* `typeof v === 'number'`
TypeofNumber(v) == v.tag \in {"number", "infinity"}

\* what a body can carry as distance: numbers, a string, nothing
BodyDistances ==
    { NumberValue(d) : d \in CompareDistances \cup {-1} }
        \cup { PositiveInfinity, [tag |-> "string", n |-> 1], Undefined }

ModeValues == TransportModeIds \cup {"flying"}

\* what a body can carry as modes: arrays of up to MaxModes values, a string,
\* nothing
BodyModes ==
    { [isArray |-> TRUE, items |-> list] :
         list \in UNION { [1..n -> ModeValues] : n \in 0..MaxModes } }
        \cup { [isArray |-> FALSE, items |-> <<"walking">>],
               [isArray |-> FALSE, items |-> <<>>] }

\* `typeof distance !== 'number' || distance < 0`
DistanceRejected(distance) == ~TypeofNumber(distance) \/ distance.n < 0

\* `!Array.isArray(modes) || modes.length === 0`
ModesRejected(modes) == ~modes.isArray \/ Len(modes.items) = 0

\* calculateMetrics at an infinite distance.  distanceKm is Infinity, so
\* carbonEmissions and estimatedCost are Infinity where the factor is positive
\* and NaN (Infinity * 0) where it is 0: not finite either way (nan; JSON
\* carries both as null), the difference of any two of them is NaN and so is
\* carbonEmissions / distanceKm, which leaves the rating at 'E'.  Every
\* `distanceKm < x` of the health text is false.  calories, Infinity for the
\* active modes, is kept as no value.
MetricsAtInfinity(mode) ==
    IF ~HasTransportMode(mode) THEN MetricsError
    ELSE [ok |-> TRUE, nan |-> TRUE, carbonEmissions |-> 0, estimatedCost |-> 0,
          costRange |-> <<>>, calories |-> <<>>,
          healthImpact |-> GetHealthImpact(mode, PositiveInfinity.n),
          environmentalRating |-> "E",
          emissionsFactor |-> IF mode \in InheritedNames THEN 0
                              ELSE EmissionsFactor(mode)]

\* modes.map(mode => ({ mode, ...this.calculateMetrics({ distance, mode }) }))
\* (the metrics are kept together under `metrics`)
MapMetrics(distance, modes) ==
    [i \in DOMAIN modes |->
        [mode |-> modes[i],
         metrics |-> IF distance = PositiveInfinity
                     THEN MetricsAtInfinity(modes[i])
                     ELSE CalculateMetricsResult(
                             [distance |-> distance.n, mode |-> modes[i],
                              locationContext |-> <<>>])]]

\* (mutant) an element goes in front of the elements it ties with
InsertBeforeTies(sorted, x) ==
    LET before == Cardinality({i \in DOMAIN sorted :
                     sorted[i].metrics.carbonEmissions < x.metrics.carbonEmissions})
    IN SubSeq(sorted, 1, before) \o <<x>> \o SubSeq(sorted, before + 1, Len(sorted))

\* where a stable sort by carbonEmissions puts x among the already sorted
\* elements that preceded it: behind every element not greater than it
InsertSorted(sorted, x) ==
    LET before == Cardinality({i \in DOMAIN sorted :
                     sorted[i].metrics.carbonEmissions <= x.metrics.carbonEmissions})
    IN SubSeq(sorted, 1, before) \o <<x>> \o SubSeq(sorted, before + 1, Len(sorted))

\* .sort((a, b) => a.carbonEmissions - b.carbonEmissions); Array.prototype.sort
\* is stable, and takes a comparator result of NaN for 0
RECURSIVE SortByEmissions(_)
SortByEmissions(list) ==
    IF list = <<>> THEN <<>>
    ELSE InsertSorted(SortByEmissions(SubSeq(list, 1, Len(list) - 1)), list[Len(list)])

\* (mutant) the list is left in the order of the request
CompareTransportModesUnsorted(distance, modes) ==
    LET mapped == MapMetrics(distance, modes)
    IN IF \E i \in DOMAIN mapped : ~mapped[i].metrics.ok
       THEN [threw |-> TRUE, list |-> <<>>]
       ELSE [threw |-> FALSE, list |-> mapped]

\* compareTransportModes(distance, modes): throws when calculateMetrics throws
\* for one of the modes
CompareTransportModes(distance, modes) ==
    LET mapped == MapMetrics(distance, modes)
    IN IF \E i \in DOMAIN mapped : ~mapped[i].metrics.ok
       THEN [threw |-> TRUE, list |-> <<>>]
       ELSE [threw |-> FALSE, list |-> SortByEmissions(mapped)]

\* (mutant) the upper bound of each band belongs to the band
GetRecommendationsInclusive(distance) ==
    IF distance <= 1000
    THEN [recommended |-> <<"walking">>, avoid |-> <<"driving">>]
    ELSE IF distance <= 3000
    THEN [recommended |-> <<"walking", "cycling">>, avoid |-> <<"driving">>]
    ELSE IF distance <= 8000
    THEN [recommended |-> <<"cycling", "transit">>, avoid |-> <<>>]
    ELSE [recommended |-> <<"transit", "driving">>, avoid |-> <<>>]

\* getRecommendations(distanceKm), distanceKm = distance / 1000
GetRecommendations(distance) ==
    IF distance < 1000
    THEN [recommended |-> <<"walking">>, avoid |-> <<"driving">>]
    ELSE IF distance < 3000
    THEN [recommended |-> <<"walking", "cycling">>, avoid |-> <<"driving">>]
    ELSE IF distance < 8000
    THEN [recommended |-> <<"cycling", "transit">>, avoid |-> <<>>]
    ELSE [recommended |-> <<"transit", "driving">>, avoid |-> <<>>]

NoRecommendations == [recommended |-> <<>>, avoid |-> <<>>]

\* a response: the HTTP status, the error code, whether the calculator was
\* invoked, and the data of a success.  nan: the two savings are NaN (the
\* number fields then hold no value).
CompareResponse(status, code, invoked) ==
    [status |-> status, code |-> code, invoked |-> invoked, comparison |-> <<>>,
     bestOption |-> <<>>, worstOption |-> <<>>, nan |-> FALSE,
     carbonSavings |-> 0, costSavings |-> 0, recommendations |-> NoRecommendations]

\* the handler of POST /compare, and errorHandler for what it throws
CompareHandler(body) ==
    IF DistanceRejected(body.distance)
    THEN CompareResponse(400, "VALIDATION_ERROR", FALSE)
    ELSE IF ModesRejected(body.modes)
    THEN CompareResponse(400, "VALIDATION_ERROR", FALSE)
    ELSE LET comparison == CompareTransportModes(body.distance, body.modes.items)
             list == comparison.list
             bestOption == list[1]
             worstOption == list[Len(list)]
         IN IF comparison.threw
            THEN CompareResponse(500, "INTERNAL_SERVER_ERROR", TRUE)
            ELSE [CompareResponse(200, "none", TRUE) EXCEPT
                    !.comparison = list,
                    !.bestOption = << bestOption >>,
                    !.worstOption = << worstOption >>,
                    !.nan = worstOption.metrics.nan \/ bestOption.metrics.nan,
                    !.carbonSavings = worstOption.metrics.carbonEmissions
                                         - bestOption.metrics.carbonEmissions,
                    !.costSavings = worstOption.metrics.estimatedCost
                                       - bestOption.metrics.estimatedCost,
                    !.recommendations = GetRecommendations(body.distance.n)]

PostCompare ==
    /\ metricsOut = <<>>
    /\ metricsOut' = << CompareHandler(metricsIn) >>
    /\ UNCHANGED <<metricsIn, cacheVars, serviceVars, keyVars, gasVars, errVars, batchVars, replaced>>

CompareInit ==
    /\ InitCache
    /\ \A c \in Caches : enabled[c]
    /\ cfgTtl = [geocoding |-> 2, directions |-> 1]
    /\ InitService
    /\ InitKey
    /\ InitGas
    /\ InitErr
    /\ InitBatch
    /\ metricsIn \in [distance : BodyDistances, modes : BodyModes]
    /\ metricsOut = <<>>

CompareNext == PostCompare

SpecCompare == CompareInit /\ [][CompareNext]_vars

\* the compare request has been answered
Answered == metricsOut # <<>>

\* the modes of a list, in its order
ModesOf(comparison) == [i \in DOMAIN comparison |-> comparison[i].mode]

\* the carbonEmissions calculateMetrics returns for a mode at the request's
\* distance
EmissionsAt(mode) ==
    CalculateMetricsResult([distance |-> metricsIn.distance.n, mode |-> mode,
                            locationContext |-> <<>>]).carbonEmissions

\* C17: for a list of valid modes, the comparison holds each mode's metrics,
\* is sorted non-decreasing by carbonEmissions, and keeps modes of equal
\* carbonEmissions in the order of the input.
C17_ComparisonSortedAndStable ==
    (/\ Answered
     /\ metricsIn.distance.tag = "number" /\ metricsIn.distance.n >= 0
     /\ metricsIn.modes.isArray /\ metricsIn.modes.items # <<>>
     /\ \A i \in DOMAIN metricsIn.modes.items :
           metricsIn.modes.items[i] \in TransportModeIds)
        => LET given == metricsIn.modes.items
               comparison == metricsOut[1].comparison
           IN /\ metricsOut[1].status = 200
              /\ Len(comparison) = Len(given)
              /\ \A i \in DOMAIN comparison :
                    /\ comparison[i].metrics.ok
                    /\ comparison[i].metrics.carbonEmissions
                          = EmissionsAt(comparison[i].mode)
              /\ \A i, j \in DOMAIN comparison :
                    i < j => comparison[i].metrics.carbonEmissions
                                <= comparison[j].metrics.carbonEmissions
              /\ \A m \in TransportModeIds :
                    SelectSeq(ModesOf(comparison),
                              LAMBDA x : EmissionsAt(x) = EmissionsAt(m))
                       = SelectSeq(given, LAMBDA x : EmissionsAt(x) = EmissionsAt(m))

\* driving, cycling, walking over 1000 m came back as cycling, walking, driving
C17_Witness ==
    /\ Answered
    /\ metricsIn.distance = NumberValue(1000)
    /\ metricsIn.modes = [isArray |-> TRUE, items |-> <<"driving", "cycling", "walking">>]
    /\ ModesOf(metricsOut[1].comparison) = <<"cycling", "walking", "driving">>

\* C18 (as stated): a compare request whose distance is not a non-negative
\* number, or whose modes is not a list, is empty or holds a value outside the
\* four modes, is answered with a validation error and the calculator is not
\* invoked.
C18_InvalidCompareRejected ==
    (/\ Answered
     /\ \/ metricsIn.distance.tag # "number"
        \/ metricsIn.distance.n < 0
        \/ ~metricsIn.modes.isArray
        \/ metricsIn.modes.items = <<>>
        \/ \E i \in DOMAIN metricsIn.modes.items :
              metricsIn.modes.items[i] \notin {"walking", "cycling", "driving", "transit"})
        => /\ metricsOut[1].status = 400
           /\ metricsOut[1].code = "VALIDATION_ERROR"
           /\ ~metricsOut[1].invoked

\* C19: the recommendations for a distance are [walking] / avoid [driving]
\* below 1 km, [walking, cycling] / avoid [driving] from 1 km to below 3 km,
\* [cycling, transit] / avoid none from 3 km to below 8 km, and
\* [transit, driving] / avoid none from 8 km on.
C19_RecommendationBands ==
    (Answered /\ metricsOut[1].status = 200)
        => LET metres == metricsIn.distance.n
               got == metricsOut[1].recommendations
           IN /\ metres < 1000
                   => got.recommended = <<"walking">> /\ got.avoid = <<"driving">>
              /\ (1000 <= metres /\ metres < 3000)
                   => /\ got.recommended = <<"walking", "cycling">>
                      /\ got.avoid = <<"driving">>
              /\ (3000 <= metres /\ metres < 8000)
                   => got.recommended = <<"cycling", "transit">> /\ got.avoid = <<>>
              /\ metres >= 8000
                   => got.recommended = <<"transit", "driving">> /\ got.avoid = <<>>

\* exactly 3 km got cycling and transit, nothing to avoid
C19_Witness ==
    /\ Answered /\ metricsOut[1].status = 200
    /\ metricsIn.distance = NumberValue(3000)
    /\ metricsOut[1].recommendations
          = [recommended |-> <<"cycling", "transit">>, avoid |-> <<>>]

\* a cost per km in whole cents is the price per gallon (in cents) over
\* mpg * 1.60934 km, rounded to 2 decimals: no further than half a cent from it
RoundedCostPerKm(cents, price, mpg) ==
    /\ 2 * (cents * mpg * 160934 - price * 100000) <= mpg * 160934
    /\ 2 * (price * 100000 - cents * mpg * 160934) <= mpg * 160934

\* C21: for every location context, getCostRange returns the cost per km at
\* 35 mpg as min, at 25 mpg as average and at 18 mpg as max, each rounded to 2
\* decimals, for the price of that location, and min <= average <= max.
C21_CostRangeOrdered ==
    (gasOut # <<>> /\ gasIn.op = "getCostRange")
        => LET range == gasOut[1]
               price == range.gasPricePerGallon
           IN /\ price \in PromisedPrice(gasIn.locationContext)
              /\ RoundedCostPerKm(range.min, price, 35)
              /\ RoundedCostPerKm(range.average, price, 25)
              /\ RoundedCostPerKm(range.max, price, 18)
              /\ range.min <= range.average
              /\ range.average <= range.max

\* the range of an unmatched country (ZZ): 0.07, 0.09, 0.13 at the default 3.80
C21_Witness ==
    /\ gasOut # <<>> /\ gasIn.op = "getCostRange"
    /\ gasIn.locationContext # <<>>
    /\ gasIn.locationContext[1].country = "ZZ"
    /\ gasOut[1].min = 7 /\ gasOut[1].average = 9 /\ gasOut[1].max = 13
    /\ gasOut[1].gasPricePerGallon = 380

\* the items of the context handed to parseLocationContext
GivenItems == gasIn.mapboxContext.items

\* the last item of a namespace among the given items, as a set: empty when
\* there is none
LastOf(ns) ==
    LET at == { i \in DOMAIN GivenItems : GivenItems[i].ns = ns }
    IN { GivenItems[i] : i \in { j \in at : \A k \in at : k <= j } }

\* the items the hyphenated short-code rule applies to
Hyphenated ==
    { i \in DOMAIN GivenItems :
         /\ GivenItems[i].ns \notin {"country", "region"}
         /\ HasHyphen(GivenItems[i])
         /\ Len(Split(GivenItems[i].short_code.chars, "-")) = 2 }

\* C22 (as stated): the country a "country." item yields and the text of a
\* "region." item are what is returned, in whatever order the items come: the
\* parts of a hyphenated short-code on another item replace neither.  When no
\* country is found the result is undefined.
C22_HyphenRuleIsFallback ==
    (gasOut # <<>> /\ gasIn.op = "parseLocationContext")
        => LET parsed == gasOut[1].parsed
           IN /\ \A item \in LastOf("country") :
                    StrTruthy(CountryOfItem(item))
                       => parsed # <<>> /\ parsed[1].country = CountryOfItem(item)
              /\ \A item \in LastOf("region") :
                    parsed # <<>> => parsed[1].region = item.text
              /\ parsed # <<>> => StrTruthy(parsed[1].country)
              /\ (LastOf("country") = {} /\ Hyphenated = {}) => parsed = <<>>

----------------------------------------------------------------------------
(* middleware/errorHandler.ts: errorHandler behind asyncHandler *)

\* the errors a route handler rejects with: statusCode and code are optional
\* ("undefined" is the absent string, 0 a statusCode that is falsy)
StatusCodes == {Undefined, NumberValue(0), NumberValue(400), NumberValue(404),
                NumberValue(422), NumberValue(500), NumberValue(503)}
ErrorCodes == {"undefined", "", "VALIDATION_ERROR", "NO_ROUTE_FOUND",
               "DIRECTIONS_SERVICE_ERROR", "INTERNAL_SERVER_ERROR"}
ErrorMessages == {"", "Unknown transport mode: flying",
                  "Directions service temporarily unavailable"}
NodeEnvs == {"undefined", "production", "development", "test"}
RequestIds == {"undefined", "", "req-1"}
AppErrors == [statusCode : StatusCodes, code : ErrorCodes, message : ErrorMessages]

\* (mutant) the error's own code is sent, whatever it is
ErrorCodeAsCarried(err) == err.code

\* `err.code || 'INTERNAL_SERVER_ERROR'`
ErrorCodeOf(err) == IF StringTruthy(err.code) THEN err.code ELSE "INTERNAL_SERVER_ERROR"

\* `err.statusCode || 500`
StatusCodeOf(err) == IF Truthy(err.statusCode) THEN err.statusCode.n ELSE 500

\* errorHandler: the status and the JSON body it sends.  The body has the
\* keys success, error and meta; data is <<>> because the key is not there.
ErrorHandler(err, nodeEnv, requestId) ==
    LET statusCode == StatusCodeOf(err)
        code == ErrorCodeOf(err)
        message == IF statusCode = 500 /\ nodeEnv = "production"
                   THEN "Internal server error" ELSE err.message
    IN [status |-> statusCode,
        success |-> FALSE,
        error |-> [code |-> code, message |-> message,
                   stack |-> nodeEnv = "development"],
        meta |-> [requestId |-> IF StringTruthy(requestId) THEN requestId
                                ELSE "unknown"],
        data |-> <<>>]

\* asyncHandler: the rejection of the route handler's promise is passed to
\* next, and Express hands it to errorHandler
AsyncHandlerCatch ==
    /\ errOut = <<>>
    /\ errOut' = << ErrorHandler(errIn.err, errIn.nodeEnv, errIn.requestId) >>
    /\ UNCHANGED <<errIn, cacheVars, serviceVars, keyVars, metricsVars, gasVars,
                   batchVars, replaced>>

ErrorInit ==
    /\ InitCache
    /\ \A c \in Caches : enabled[c]
    /\ cfgTtl = [geocoding |-> 2, directions |-> 1]
    /\ InitService
    /\ InitKey
    /\ InitMetrics
    /\ InitGas
    /\ InitBatch
    /\ errIn \in [err : AppErrors, nodeEnv : NodeEnvs, requestId : RequestIds]
    /\ errOut = <<>>

ErrorNext == AsyncHandlerCatch

SpecError == ErrorInit /\ [][ErrorNext]_vars

\* C23: whatever error reaches it, errorHandler answers success=false with a
\* non-empty error.code (the error's own, or INTERNAL_SERVER_ERROR when it
\* carries none), under the error's HTTP status (500 when it carries none),
\* with a message and without a data member: no partial metrics.
C23_StructuredError ==
    errOut # <<>>
        => LET err == errIn.err
               sent == errOut[1]
           IN /\ sent.success = FALSE
              /\ sent.error.code \notin {"undefined", ""}
              /\ sent.error.code = (IF err.code \in {"undefined", ""}
                                    THEN "INTERNAL_SERVER_ERROR" ELSE err.code)
              /\ sent.status = (IF err.statusCode \in {Undefined, NumberValue(0)}
                                THEN 500 ELSE err.statusCode.n)
              /\ sent.error.message \in {err.message, "Internal server error"}
              /\ sent.data = <<>>

\* C23 (witness): a plain Error, without statusCode and code, was answered
\* 500 INTERNAL_SERVER_ERROR
C23_Witness ==
    /\ errOut # <<>>
    /\ errIn.err.statusCode = Undefined
    /\ errIn.err.code = "undefined"
    /\ errOut[1].status = 500
    /\ errOut[1].error.code = "INTERNAL_SERVER_ERROR"
    /\ errOut[1].success = FALSE

----------------------------------------------------------------------------
(* Re-setting a key: the cache API on enabled caches, every set call       *)
(* remembering the entry it replaced                                        *)

ResetInit ==
    /\ CacheApiInit
    /\ \A c \in Caches : enabled[c]

\* the two caches are separate NodeCache objects behind the same four
\* functions; the calls here are made on the directions cache
ResetNext ==
    \/ \E k \in ApiKeys : CacheGet("directions", k)
    \/ \E k \in ApiKeys, v \in ApiValues, ttl \in TtlArgs :
           CacheReSet("directions", k, v, ttl)
    \/ CheckData("directions")
    \/ Tick

SpecReset == ResetInit /\ [][ResetNext]_vars

\* the ttl a set call asks for, read literally: its argument, the configured
\* default when the argument is left out
AskedTtl(c, arg) == IF arg = <<>> THEN cfgTtl[c] ELSE arg[1]

\* the ttl a set call gets: its argument when given and not 0, else the
\* configured default
GrantedTtl(c, arg) == IF arg = <<>> \/ arg[1] = 0 THEN cfgTtl[c] ELSE arg[1]

\* a set call on an enabled cache has just returned, over an entry that an
\* earlier set call had left under the key
ResetDone ==
    /\ last.op = "set"
    /\ enabled[last.c]
    /\ replaced # <<>>

----------------------------------------------------------------------------
(* A cache hit in geocode / getDirections *)

\* invocation i runs, in this step, from its call to its first await or return
Begins(i) == inv[i].pc = "idle" /\ inv'[i].pc # "idle"

\* C25: when an invocation finds an unexpired entry under its key in an
\* enabled cache, it returns exactly the stored value, sends no request to the
\* provider, and leaves the contents of both caches as they were.
C25_HitShortCircuitsProvider ==
    [][ \A i \in Slots :
           LET c == CacheOf(inv'[i].kind)
               key == inv'[i].key
           IN (Begins(i) /\ enabled[c] /\ NcLive(store[c], key, now))
                 => /\ inv'[i].pc = "done"
                    /\ inv'[i].from = "cache"
                    /\ inv'[i].res = store[c][key].v
                    /\ inv'[i].calls = 0
                    /\ inflight' = inflight
                    /\ store' = store
      ]_vars

\* C25 (witness): an invocation has returned the entry of an earlier
\* invocation from the cache, without a provider call, and the entry is still
\* there
C25_Witness ==
    \E i \in Slots :
       LET c == CacheOf(inv[i].kind)
       IN /\ inv[i].pc = "done"
          /\ inv[i].from = "cache"
          /\ inv[i].calls = 0
          /\ i \notin inflight
          /\ enabled[c]
          /\ NcLive(store[c], inv[i].key, now)
          /\ inv[i].res = store[c][inv[i].key].v
          /\ \E j \in Slots \ {i} : inv[j].from = "provider" /\ inv[j].res = inv[i].res

----------------------------------------------------------------------------
(* del and clear, with two keys in each cache *)

EvictKeys == {"k1", "k2"}

EvictNext ==
    \/ \E c \in Caches, k \in EvictKeys : CacheGet(c, k)
    \/ \E c \in Caches, k \in EvictKeys, v \in ApiValues : CacheSet(c, k, v, <<>>)
    \/ \E c \in Caches, k \in EvictKeys : CacheDel(c, k)
    \/ \E c \in Caches : CacheClear(c)

SpecEvict == CacheApiInit /\ [][EvictNext]_vars

\* the entry under key k of cache c is in both states the same, or in
\* neither state there
Untouched(c, k) ==
    /\ k \in DOMAIN store[c] <=> k \in DOMAIN store'[c]
    /\ k \in DOMAIN store[c] => store'[c][k] = store[c][k]

\* C26: del(k) removes the entry under k of its cache and leaves every other
\* key and the other cache as they were; clear() removes every entry of its
\* cache and leaves the other cache as it was; a get that follows returns
\* absent for a removed key.  Neither looks at the enabled flag.
C26_DelAndClearAreLocal ==
    [][ /\ last'.op = "del"
            => /\ last'.k \notin DOMAIN store'[last'.c]
               /\ \A c \in Caches, k \in EvictKeys :
                     (c # last'.c \/ k # last'.k) => Untouched(c, k)
        /\ last'.op = "clear"
            => /\ DOMAIN store'[last'.c] = {}
               /\ \A c \in Caches \ {last'.c}, k \in EvictKeys : Untouched(c, k)
        /\ (last.op = "del" /\ last'.op = "get" /\ last'.c = last.c /\ last'.k = last.k)
            => last'.res = Null
        /\ (last.op = "clear" /\ last'.op = "get" /\ last'.c = last.c)
            => last'.res = Null
      ]_vars

\* C26 (witness): del has just deleted one entry, while the other key of the
\* same cache and an entry of the other cache are still there
C26_Witness ==
    /\ last.op = "del"
    /\ last.res = NumberValue(1)
    /\ last.k \notin DOMAIN store[last.c]
    /\ DOMAIN store[last.c] # {}
    /\ \E c \in Caches \ {last.c} : DOMAIN store[c] = EvictKeys

----------------------------------------------------------------------------
(* Hit and miss counters *)

NoStats == [c \in Caches |-> [hits |-> 0, misses |-> 0]]

\* cache c counts one more hit (one more miss) and nothing else
OneMoreHit(c) ==
    cacheStats'[c] = [hits |-> cacheStats[c].hits + 1, misses |-> cacheStats[c].misses]
OneMoreMiss(c) ==
    cacheStats'[c] = [hits |-> cacheStats[c].hits, misses |-> cacheStats[c].misses + 1]

\* C27: a get on an enabled cache adds one to exactly one counter of that
\* cache, the hit counter if and only if it returns a value, and leaves the
\* counters of the other cache alone; a get on a disabled cache, set, del and
\* clear change no counter; a counter changes in no other way, except that
\* clearAllCaches puts all four back to zero.
C27_HitMissAccounting ==
    [][ /\ (last'.op = "get" /\ last' # last /\ enabled[last'.c])
            => /\ IF last'.res # Null THEN OneMoreHit(last'.c)
                                      ELSE OneMoreMiss(last'.c)
               /\ \A c \in Caches \ {last'.c} : cacheStats'[c] = cacheStats[c]
        /\ (last'.op = "get" /\ ~enabled[last'.c]) => cacheStats' = cacheStats
        /\ last'.op \in {"set", "del", "clear"} => cacheStats' = cacheStats
        /\ last'.op = "clearAll" => cacheStats' = NoStats
        /\ \A c \in Caches :
              cacheStats'[c] # cacheStats[c]
                 => \/ /\ last'.op = "get" /\ last'.c = c /\ enabled[c]
                       /\ \/ OneMoreHit(c) /\ last'.res # Null
                          \/ OneMoreMiss(c) /\ last'.res = Null
                    \/ last'.op = "clearAll" /\ cacheStats' = NoStats
      ]_vars

\* C27 (witness): an enabled cache has answered one get with a value and one
\* with absent, and counts one hit and one miss; the other cache counts none
C27_Witness ==
    /\ last.op = "get"
    /\ enabled[last.c]
    /\ last.res # Null
    /\ cacheStats[last.c] = [hits |-> 1, misses |-> 1]
    /\ \A c \in Caches \ {last.c} : cacheStats[c] = [hits |-> 0, misses |-> 0]

----------------------------------------------------------------------------
(* The summary of a comparison *)

\* a compare request with a distance that typeof calls a number and that is
\* not negative, and a non-empty list of the four modes, has been answered
ValidCompareAnswered ==
    /\ Answered
    /\ TypeofNumber(metricsIn.distance) /\ metricsIn.distance.n >= 0
    /\ metricsIn.modes.isArray /\ metricsIn.modes.items # <<>>
    /\ \A i \in DOMAIN metricsIn.modes.items :
          metricsIn.modes.items[i] \in TransportModeIds

\* bestOption is the first and worstOption the last element of the comparison,
\* no element has lower emissions than bestOption or higher than worstOption,
\* and the two savings are the differences worst minus best, both numbers
\* that are not negative
SummaryAsPromised ==
    LET sent == metricsOut[1]
        comparison == sent.comparison
    IN /\ sent.status = 200
       /\ comparison # <<>>
       /\ sent.bestOption = << comparison[1] >>
       /\ sent.worstOption = << comparison[Len(comparison)] >>
       /\ ~sent.nan
       /\ \A i \in DOMAIN comparison :
             /\ ~comparison[i].metrics.nan
             /\ sent.bestOption[1].metrics.carbonEmissions
                   <= comparison[i].metrics.carbonEmissions
             /\ comparison[i].metrics.carbonEmissions
                   <= sent.worstOption[1].metrics.carbonEmissions
       /\ sent.carbonSavings = sent.worstOption[1].metrics.carbonEmissions
                                  - sent.bestOption[1].metrics.carbonEmissions
       /\ sent.costSavings = sent.worstOption[1].metrics.estimatedCost
                                - sent.bestOption[1].metrics.estimatedCost
       /\ sent.carbonSavings >= 0
       /\ sent.costSavings >= 0

----------------------------------------------------------------------------
(* The rating at ordinary distances *)

\* C29: from 1000 m up to the validated maximum of 1,000,000 m the rating is
\* that of the mode's own factor, whatever the distance: 'D' for driving and
\* 'B' for transit.  Rounding the emissions to 3 decimals first does not move
\* it.
C29_RatingDependsOnModeOnly ==
    (Returned /\ metricsIn.distance >= 1000 /\ metricsIn.distance <= 1000000)
        => /\ metricsIn.mode = "driving" => metricsOut[1].environmentalRating = "D"
           /\ metricsIn.mode = "transit" => metricsOut[1].environmentalRating = "B"

\* C29 (witness): 999,999 m of transit: 88.999911 kg is rounded up to 89 kg,
\* a little more than 0.089 kg per km, and the rating is still B
C29_Witness ==
    /\ Returned
    /\ metricsIn.mode = "transit" /\ metricsIn.distance = 999999
    /\ metricsOut[1].carbonEmissions = 89000
    /\ metricsOut[1].environmentalRating = "B"

----------------------------------------------------------------------------
(* POST /api/directions/batch: one getDirections call per profile, all      *)
(* started before any of them is answered, and one response when the last   *)
(* has settled                                                              *)

MaxProfiles == 2
MaxBatches == 2

BatchProfiles == {"mapbox/driving", "mapbox/walking"}

\* what a body can carry as start and end, and as profiles
BodyStarts ==
    { [isArray |-> TRUE, items |-> <<0, 0>>], [isArray |-> FALSE, items |-> <<>>] }

BodyEnds ==
    { [isArray |-> TRUE, items |-> <<1, 1>>], [isArray |-> TRUE, items |-> <<1>>] }

BodyProfiles ==
    { [isArray |-> TRUE, items |-> list] :
         list \in UNION { [1..n -> BatchProfiles] : n \in 0..MaxProfiles } }
        \cup { [isArray |-> FALSE, items |-> <<>>] }

BatchBodies ==
    [start : BodyStarts, end : BodyEnds, profiles : BodyProfiles]

\* the input validation of the route
BatchRejected(body) ==
    \/ ~body.start.isArray \/ Len(body.start.items) # 2
    \/ ~body.end.isArray \/ Len(body.end.items) # 2
    \/ ~body.profiles.isArray \/ Len(body.profiles.items) = 0

\* the request handed to getDirections for one profile: { start, end, profile },
\* the rest left to getDirections' defaults
BatchDirections(body, profile) ==
    [BaseDirections EXCEPT !.start = body.start.items, !.end = body.end.items,
                           !.profile = profile]

\* the getDirections call for one profile, up to its return from the cache or
\* its `await fetch(...)`
BatchCall(body, profile) ==
    LET key == GenerateDirectionsCacheKey(body.start.items, body.end.items, profile)
        cached == CacheGetResult("directions", key)
    IN IF Truthy(cached)
       THEN [profile |-> profile, key |-> key, pc |-> "done", from |-> "cache",
             resp |-> NoResponse, res |-> cached, code |-> "none"]
       ELSE [profile |-> profile, key |-> key, pc |-> "fetching", from |-> "provider",
             resp |-> NoResponse, res |-> Null, code |-> "none"]

\* the NodeCache data after the gets of a list of keys, one after the other
RECURSIVE NcAfterGets(_, _, _)
NcAfterGets(d, keys, time) ==
    IF keys = <<>> THEN d
    ELSE NcAfterGets(NcAfterGet(d, Head(keys), time), Tail(keys), time)

\* the entry of the response for one settled call
BatchEntry(call) ==
    IF call.pc = "done"
    THEN [profile |-> call.profile, success |-> TRUE, data |-> call.res,
          error |-> "none"]
    ELSE [profile |-> call.profile, success |-> FALSE, data |-> Null,
          error |-> call.code]

\* (mutant) the calls that failed are left out of the results
BatchResultsSuccessfulOnly(calls) ==
    SelectSeq([i \in DOMAIN calls |-> BatchEntry(calls[i])], LAMBDA r : r.success)

\* `await Promise.all(routePromises)`: the entries in the order of the profiles
BatchResults(calls) == [i \in DOMAIN calls |-> BatchEntry(calls[i])]

NoSummary == [total |-> 0, successful |-> 0, failed |-> 0]

\* the response once every call has settled
BatchResponse(calls) ==
    LET results == BatchResults(calls)
    IN [status |-> 200, success |-> TRUE, code |-> "none", routes |-> results,
        summary |-> [total |-> Len(results),
                     successful |-> Len(SelectSeq(results, LAMBDA r : r.success)),
                     failed |-> Len(SelectSeq(results, LAMBDA r : ~r.success))]]

BatchValidationError ==
    [status |-> 400, success |-> FALSE, code |-> "VALIDATION_ERROR", routes |-> <<>>,
     summary |-> NoSummary]

NoBatchResponse ==
    [status |-> 0, success |-> FALSE, code |-> "none", routes |-> <<>>,
     summary |-> NoSummary]

Settled(calls) == \A i \in DOMAIN calls : calls[i].pc # "fetching"

\* the number of batch requests received so far
BatchesServed == IF batch = <<>> THEN 0 ELSE batch[1].served

\* a batch request arrives: it is validated, and every profile's getDirections
\* call runs to its cache hit or its fetch
BatchRequest(body) ==
    /\ IF batch = <<>> THEN TRUE ELSE batch[1].pc = "done"
    /\ BatchesServed < MaxBatches
    /\ IF BatchRejected(body)
       THEN /\ batch' = << [pc |-> "done", body |-> body, calls |-> <<>>,
                            served |-> BatchesServed + 1,
                            response |-> BatchValidationError] >>
            /\ UNCHANGED <<store, cacheStats>>
       ELSE LET profiles == body.profiles.items
                calls == [i \in DOMAIN profiles |-> BatchCall(body, profiles[i])]
                keys == [i \in DOMAIN calls |-> calls[i].key]
                hits == Cardinality({i \in DOMAIN calls : calls[i].pc = "done"})
            IN /\ batch' = << [pc |-> IF Settled(calls) THEN "done" ELSE "waiting",
                               body |-> body, calls |-> calls,
                               served |-> BatchesServed + 1,
                               response |-> IF Settled(calls)
                                            THEN BatchResponse(calls)
                                            ELSE NoBatchResponse] >>
               /\ store' = IF ~CacheOn("directions") THEN store
                           ELSE [store EXCEPT !["directions"] =
                                    NcAfterGets(@, keys, now)]
               /\ cacheStats' =
                     IF ~CacheOn("directions") THEN cacheStats
                     ELSE [cacheStats EXCEPT
                             !["directions"].hits = @ + hits,
                             !["directions"].misses = @ + Len(calls) - hits]
    /\ UNCHANGED <<enabled, cfgTtl, now, last, serviceVars, keyVars, metricsVars,
                   gasVars, errVars, replaced>>

\* the provider answers the fetch of the i-th call, which runs on to its return
\* or throw; the response is sent when it was the last one awaited
BatchRespond(i, r) ==
    /\ batch # <<>>
    /\ batch[1].pc = "waiting"
    /\ i \in DOMAIN batch[1].calls
    /\ batch[1].calls[i].pc = "fetching"
    /\ LET call == batch[1].calls[i]
           out == DirectionsOutcome(BatchDirections(batch[1].body, call.profile), r)
           calls == [batch[1].calls EXCEPT
                       ![i].pc = IF out.ok THEN "done" ELSE "failed",
                       ![i].resp = r, ![i].res = out.res, ![i].code = out.code]
       IN /\ store' = IF out.ok
                      THEN StoreAfterSet("directions", call.key, out.res, <<>>)
                      ELSE store
          /\ batch' = << [batch[1] EXCEPT
                            !.calls = calls,
                            !.pc = IF Settled(calls) THEN "done" ELSE "waiting",
                            !.response = IF Settled(calls) THEN BatchResponse(calls)
                                         ELSE NoBatchResponse] >>
    /\ UNCHANGED <<enabled, cfgTtl, now, cacheStats, last, serviceVars, keyVars,
                   metricsVars, gasVars, errVars, replaced>>

BatchInit ==
    /\ InitCache
    /\ cfgTtl = [geocoding |-> 2, directions |-> 1]
    /\ InitService
    /\ InitKey
    /\ InitMetrics
    /\ InitGas
    /\ InitErr
    /\ InitBatch

\* the provider's answers in a batch: fetch rejects, a rate limit, a route,
\* no route
BatchResponses ==
    { r \in Responses : r.net \/ r.status = 429
                            \/ (r.status = 200 /\ r.body \in {"full", "empty"}) }

BatchNext ==
    \/ \E body \in BatchBodies : BatchRequest(body)
    \/ \E i \in 1..MaxProfiles, r \in BatchResponses : BatchRespond(i, r)
    \/ ServiceTick

SpecBatch == BatchInit /\ [][BatchNext]_vars

\* a batch request that passed the validation has been answered
BatchAnswered ==
    /\ batch # <<>>
    /\ batch[1].pc = "done"
    /\ ~BatchRejected(batch[1].body)

\* C30: the answer to a batch request holds exactly one result per requested
\* profile, in the order of the request; a result is a failure exactly when
\* the provider call made for that very profile failed, and a success carries
\* the route of its own profile; total = successful + failed = the number of
\* requested profiles.
C30_OneResultPerProfile ==
    BatchAnswered
        => LET profiles == batch[1].body.profiles.items
               calls == batch[1].calls
               sent == batch[1].response
               routes == sent.routes
               successes == {i \in DOMAIN routes : routes[i].success}
           IN /\ sent.status = 200
              /\ Len(routes) = Len(profiles)
              /\ \A i \in DOMAIN routes :
                    /\ routes[i].profile = profiles[i]
                    /\ routes[i].success
                          <=> ~(calls[i].from = "provider"
                                  /\ FailedCall("directions", calls[i].resp))
                    /\ routes[i].success
                          => routes[i].data
                                = RouteResult(BatchDirections(batch[1].body, profiles[i]))
                    /\ ~routes[i].success => routes[i].error # "none"
              /\ sent.summary.total = Len(profiles)
              /\ sent.summary.successful = Cardinality(successes)
              /\ sent.summary.failed = Len(profiles) - Cardinality(successes)
              /\ sent.summary.total = sent.summary.successful + sent.summary.failed

\* C30 (witness): of driving and walking, the provider failed the first and
\* answered the second: one failed entry, then one route, in that order
C30_Witness ==
    /\ BatchAnswered
    /\ batch[1].body.profiles.items = <<"mapbox/driving", "mapbox/walking">>
    /\ batch[1].calls[1].resp.status = 429
    /\ ~batch[1].response.routes[1].success
    /\ batch[1].response.routes[1].profile = "mapbox/driving"
    /\ batch[1].response.routes[2].success
    /\ batch[1].response.routes[2].profile = "mapbox/walking"
    /\ batch[1].response.summary = [total |-> 2, successful |-> 1, failed |-> 1]

====
